---- MODULE Spec2Model ----
(***************************************************************************)
(* Model of the resume-processing pipeline of Resume-Sorter:               *)
(*   - ProcessingQueue (utils/gemini_processor.py): add_task,              *)
(*     start_processing and the worker thread's _process_queue, at the     *)
(*     granularity of the statements between which CPython can switch      *)
(*     threads;                                                            *)
(*   - process_resumes (components/processor.py): the batch caller that    *)
(*     enqueues files and polls their task records.                        *)
(***************************************************************************)
EXTENDS Integers, Sequences, FiniteSets, TLC

\* ---------------------------------------------------------------- bounds
NumCallers == 2          \* threads that may call add_task
MaxAdds == 3             \* add_task calls in one behaviour

Callers == 1..NumCallers
Calls == 1..MaxAdds      \* the n-th add_task call; also names the thread it starts

\* File paths, as <<directory, stem, extension>>.
Paths == { <<"up", "cv", "pdf">>, <<"up", "cv", "docx">>, <<"up", "bob", "pdf">> }

\* Path(file_path).stem
Stem(p) == p[2]

Stems == { Stem(p) : p \in Paths }

Null == "None"

\* The dict stored by add_task for a new task.
QueuedRec == [status |-> "queued", data |-> Null, error |-> Null]

\* A key that self.results does not hold.
NoRec == [status |-> "absent", data |-> Null, error |-> Null]

\* What the processor's analyze call can do: return an extracted record,
\* return the error-tagged sentinel record (text unreadable, retries
\* exhausted), or let an exception escape.
Outcomes == {"ok", "sentinel", "raise"}

\* The value the analyze call returns for an outcome that returns.
ResultOf(o) == IF o = "ok" THEN "record" ELSE "error_record"

VARIABLES
    queue,        \* self.queue: sequence of [id, path, n]
    results,      \* self.results: task id -> record, NoRec when the key is absent
    processing,   \* self.processing
    cpc,          \* caller -> position inside add_task / start_processing
    ccall,        \* caller -> the call it is executing (0 when idle)
    wpc,          \* call n -> position of the worker thread started by call n
    wtask,        \* call n -> the queue entry that worker holds (its n, 0 if none)
    ncalls,       \* add_task calls made so far
    callpath,     \* call n -> the file path it was given
    idleAtCall,   \* call n -> no worker thread was alive when the call was made
    activeAtCall, \* call n -> a worker was in its drain loop at the call and stayed in it until the return
    before,       \* call n -> the calls that had returned when n was made
    returned,     \* calls that have returned
    phase,        \* call n -> progress of the entry it enqueued
    behindFailed, \* entries that were in the queue when a failure was recorded
    failedDocs,   \* calls whose analyze call failed (error record returned, or raised)
    files,        \* process_resumes: file_paths
    ppc,          \* process_resumes: position ("off" when it is not running)
    bstart,       \* process_resumes: i, the offset of the current batch
    bidx,         \* process_resumes: position inside the current batch
    task_ids,     \* process_resumes: task_ids of the current batch
    pfiles,       \* st.session_state.processing_files: task id -> status
    resume_data,  \* st.session_state.resume_data
    matches,      \* st.session_state.matches
    reported,     \* the counts process_resumes reports when it finishes
    gid,          \* get_result: the task id last asked for ("" before any call)
    gres,         \* get_result: the record last returned, as its holder sees it
    gheld,        \* the record last returned is the dict that results[gid] holds
    initial_delay,     \* RateLimiter: the constructor's initial_delay (ms)
    max_delay,         \* RateLimiter.max_delay (ms)
    current_delay,     \* RateLimiter.current_delay (ms)
    last_request_time, \* RateLimiter.last_request_time (ms since the epoch)
    now,               \* time.time() (ms since the epoch)
    rlock,             \* RateLimiter.lock: the thread holding it, 0 when free
    lpc,               \* thread -> position inside wait / success / failure
    lop,               \* thread -> the limiter method it is executing
    ltmp,              \* thread -> the value it read (current_delay, or the sleep it computed)
    ljit,              \* thread -> the jitter it drew, in tenths
    fret,              \* the value the last failure() returned
    lastop,            \* the limiter method that returned last
    cf,                \* failure() calls since the last success()
    cntWait,           \* wait() calls that have returned
    cntSuccess,        \* success() calls that have returned
    cntFailure,        \* failure() calls that have returned
    nticks,            \* clock advances outside sleeps
    prevStamp,         \* last_request_time before the last wait() recorded its own
    waitDelay,         \* current_delay when the last wait() computed its sleep
    seqDelay,          \* current_delay if the calls had run one after another
    seqLast,           \* last_request_time if the calls had run one after another
    presp,             \* _parse_response: the response it is given
    pret,              \* _parse_response: what the call returned or raised
    gavail,            \* GEMINI_AVAILABLE
    acalls,            \* analyze_document(_with_filters) calls made so far
    apc,               \* analyze_document: position ("idle" outside a call)
    afile,             \* analyze_document: file_path
    afilt,             \* the call is analyze_document_with_filters
    alen,              \* analyze_document: len(text)
    aexc,              \* analyze_document: message of the exception raised in its try block
    aret,              \* analyze_document: what the last call returned
    rpc,               \* _call_gemini_with_retry: position ("off" outside a call)
    attempts,          \* _call_gemini_with_retry: attempts
    last_exception,    \* _call_gemini_with_retry: message of last_exception
    hist,              \* outcomes of the _call_gemini invocations of this call
    mresp,             \* the response the last _call_gemini returned
    rret,              \* _call_gemini_with_retry: what the call returned or raised
    sleeps,            \* the time.sleep(wait_time) durations of this call
    snap,              \* the limiter's fields and call counts when the call began
    fop,               \* filter.py: the function that is called
    fquery,            \* filter.py: query
    fgemini,           \* filter.py: what processor._call_gemini_with_retry(prompt) does
    fresumes,          \* filter.py: resumes (for matches_filters, the one resume)
    ffilters,          \* filter.py: filters
    fout,              \* filter.py: what the call returned or raised
    fcalls             \* filter.py: the calls of _call_gemini_with_retry issued

vars == << queue, results, processing, cpc, ccall, wpc, wtask, ncalls,
           callpath, idleAtCall, activeAtCall, before, returned, phase,
           behindFailed, failedDocs, files, ppc, bstart, bidx, task_ids,
           pfiles, resume_data, matches, reported, gid, gres, gheld,
           initial_delay, max_delay, current_delay, last_request_time, now,
           rlock, lpc, lop, ltmp, ljit, fret, lastop, cf, cntWait, cntSuccess,
           cntFailure, nticks, prevStamp, waitDelay, seqDelay, seqLast,
           presp, pret, gavail, acalls, apc, afile, afilt, alen, aexc, aret,
           rpc, attempts, last_exception, hist, mresp, rret, sleeps, snap,
           fop, fquery, fgemini, fresumes, ffilters, fout, fcalls >>

ghost == << callpath, idleAtCall, activeAtCall, before, returned, phase,
            behindFailed, failedDocs >>

bvars == << files, ppc, bstart, bidx, task_ids, pfiles, resume_data, matches,
           reported >>

\* State of the readers of the queue (get_result).
gvars == << gid, gres, gheld >>

\* State of the RateLimiter, of its callers and of the clock.
lvars == << initial_delay, max_delay, current_delay, last_request_time, now,
            rlock, lpc, lop, ltmp, ljit, fret, lastop, cf, cntWait, cntSuccess,
            cntFailure, nticks, prevStamp, waitDelay, seqDelay, seqLast >>

\* State of the queue.
qvars == << queue, results, processing, cpc, ccall, wpc, wtask, ncalls, ghost >>

\* State of a _parse_response call.
pvars == << presp, pret >>

\* State of an analyze_document call and of its _call_gemini_with_retry call.
avars == << gavail, acalls, apc, afile, afilt, alen, aexc, aret, rpc, attempts,
            last_exception, hist, mresp, rret, sleeps, snap >>

\* State of a call of one of the functions of components/filter.py.
fvars == << fop, fquery, fgemini, fresumes, ffilters, fout, fcalls >>

\* Everything outside the queue and process_resumes.
xvars == << gvars, lvars, pvars, avars, fvars >>

\* Everything outside the RateLimiter.
lrest == << qvars, bvars, gvars, pvars, avars, fvars >>

\* Everything outside the readers of the queue.
grest == << lvars, pvars, avars, fvars >>

\* Everything outside _parse_response.
prest == << qvars, bvars, gvars, lvars, avars, fvars >>

\* Everything outside analyze_document and the RateLimiter it drives.
arest == << qvars, bvars, gvars, pvars, fvars >>

\* Everything outside components/filter.py.
frest == << qvars, bvars, gvars, lvars, pvars, avars >>

\* A worker thread that exists and has not terminated.
Alive(n) == wpc[n] \in {"loop", "get", "mark", "run", "exit"}

\* A worker thread that has not left its drain loop.
Active(n) == wpc[n] \in {"loop", "get", "mark", "run"}

AliveWorkers == { n \in Calls : Alive(n) }

ActiveWorkers == { n \in Calls : Active(n) }

TaskId(n) == Stem(callpath[n])

WorkQueueInit ==
    /\ queue = << >>
    /\ results = [s \in Stems |-> NoRec]
    /\ processing = FALSE
    /\ cpc = [c \in Callers |-> "idle"]
    /\ ccall = [c \in Callers |-> 0]
    /\ wpc = [n \in Calls |-> "unborn"]
    /\ wtask = [n \in Calls |-> 0]
    /\ ncalls = 0
    /\ callpath = [n \in Calls |-> <<"", "", "">>]
    /\ idleAtCall = [n \in Calls |-> FALSE]
    /\ activeAtCall = [n \in Calls |-> FALSE]
    /\ before = [n \in Calls |-> {}]
    /\ returned = {}
    /\ phase = [n \in Calls |-> "none"]
    /\ behindFailed = {}
    /\ failedDocs = {}
    /\ bstart = 0
    /\ bidx = 1
    /\ task_ids = << >>
    /\ pfiles = [s \in Stems |-> "absent"]
    /\ reported = [completed |-> 0, errors |-> 0]

\* A new queue, and a session that has aggregated and ranked nothing.
QueueInit ==
    /\ WorkQueueInit
    /\ resume_data = << >>
    /\ matches = << >>

\* ------------------------------------------------------- RateLimiter
NumLimiterThreads == 2   \* threads that call the limiter

LThreads == 1..NumLimiterThreads

\* RateLimiter.__init__ defaults, in milliseconds.
DefaultInitialDelay == 1000

DefaultMaxDelay == 60000

\* backoff_factor, in tenths.
BackoffTenths == 15

\* The initial_delay values a limiter is constructed with (the default among them).
InitialDelays == {500, DefaultInitialDelay, 2000}

\* random.uniform(0.8, 1.2), in tenths: both ends and the middle.
Jitters == {8, 10, 12}

\* time.time() when the limiter is constructed: later than any delay after the epoch.
StartTime == DefaultMaxDelay + DefaultMaxDelay

Max(a, b) == IF a >= b THEN a ELSE b

Min(a, b) == IF a <= b THEN a ELSE b

\* RateLimiter(initial_delay) at time StartTime; no call in progress.
LimiterInitWith(init) ==
    /\ initial_delay = init
    /\ max_delay = DefaultMaxDelay
    /\ current_delay = init
    /\ last_request_time = 0
    /\ now = StartTime
    /\ rlock = 0
    /\ lpc = [t \in LThreads |-> "idle"]
    /\ lop = [t \in LThreads |-> "none"]
    /\ ltmp = [t \in LThreads |-> 0]
    /\ ljit = [t \in LThreads |-> 10]
    /\ fret = 0
    /\ lastop = "none"
    /\ cf = 0
    /\ cntWait = 0
    /\ cntSuccess = 0
    /\ cntFailure = 0
    /\ nticks = 0
    /\ prevStamp = 0
    /\ waitDelay = 0
    /\ seqDelay = init
    /\ seqLast = 0

\* self.rate_limiter = RateLimiter()
LimiterInit == LimiterInitWith(DefaultInitialDelay)

\* No get_result call has been made.
ReaderInit ==
    /\ gid = ""
    /\ gres = NoRec
    /\ gheld = FALSE

\* No _parse_response call has been made.
Pending == [exc |-> "pending", val |-> 0]

NoResponse == [text |-> << >>, valid |-> FALSE, obj |-> << >>]

ParserInit ==
    /\ presp = NoResponse
    /\ pret = Pending

\* No analyze_document call has been made.
NoSnap == [w |-> 0, s |-> 0, f |-> 0, d |-> 0, t |-> 0]

AnalyzeIdle ==
    /\ acalls = 0
    /\ apc = "idle"
    /\ afile = << >>
    /\ afilt = FALSE
    /\ alen = 0
    /\ aexc = << >>
    /\ aret = Pending
    /\ rpc = "off"
    /\ attempts = 0
    /\ last_exception = << >>
    /\ hist = << >>
    /\ mresp = NoResponse
    /\ rret = Pending
    /\ sleeps = << >>
    /\ snap = NoSnap

\* The google.generativeai import succeeded.
AnalyzeInit ==
    /\ gavail = TRUE
    /\ AnalyzeIdle

\* No function of components/filter.py has been called.
FilterInit ==
    /\ fop = "none"
    /\ fquery = << >>
    /\ fgemini = Pending
    /\ fresumes = << >>
    /\ ffilters = << >>
    /\ fout = Pending
    /\ fcalls = 0

\* The parts of the program a specification does not exercise, at rest.
XInit ==
    /\ ReaderInit
    /\ LimiterInit
    /\ ParserInit
    /\ AnalyzeInit
    /\ FilterInit

\* A queue on which threads call add_task directly; process_resumes is not running.
Init ==
    /\ QueueInit
    /\ XInit
    /\ files = << >>
    /\ ppc = "off"

\* ------------------------------------------------------------- add_task
\* task_id = str(Path(file_path).stem); self.queue.put((task_id, file_path, user_filters))
AddTaskPut(c, p) ==
    /\ cpc[c] = "idle"
    /\ ncalls < MaxAdds
    /\ LET n == ncalls + 1 IN
        /\ ncalls' = n
        /\ queue' = Append(queue, [id |-> Stem(p), path |-> p, n |-> n])
        /\ cpc' = [cpc EXCEPT ![c] = "write"]
        /\ ccall' = [ccall EXCEPT ![c] = n]
        /\ callpath' = [callpath EXCEPT ![n] = p]
        /\ idleAtCall' = [idleAtCall EXCEPT ![n] = (AliveWorkers = {})]
        /\ activeAtCall' = [activeAtCall EXCEPT ![n] = (ActiveWorkers # {})]
        /\ before' = [before EXCEPT ![n] = returned]
        /\ phase' = [phase EXCEPT ![n] = "inqueue"]
    /\ UNCHANGED << results, processing, wpc, wtask, returned, behindFailed, failedDocs >>

\* self.results[task_id] = {"status": "queued", "data": None, "error": None}
\* The key is bound to a new dict: a dict returned earlier is no longer the
\* one in the table.
AddTaskWrite(c) ==
    /\ cpc[c] = "write"
    /\ results' = [results EXCEPT ![TaskId(ccall[c])] = QueuedRec]
    /\ gheld' = (gheld /\ gid # TaskId(ccall[c]))
    /\ cpc' = [cpc EXCEPT ![c] = "check"]
    /\ UNCHANGED << queue, processing, ccall, wpc, wtask, ncalls, ghost, bvars,
                    gid, gres, grest >>

\* return task_id
Return(c) ==
    /\ cpc' = [cpc EXCEPT ![c] = "idle"]
    /\ ccall' = [ccall EXCEPT ![c] = 0]
    /\ returned' = returned \cup {ccall[c]}

\* if not self.processing: self.start_processing()   (the test in add_task)
AddTaskCheck(c) ==
    /\ cpc[c] = "check"
    /\ IF ~processing
         THEN /\ cpc' = [cpc EXCEPT ![c] = "sp_check"]
              /\ UNCHANGED << ccall, returned >>
         ELSE Return(c)
    /\ UNCHANGED << queue, results, processing, wpc, wtask, ncalls, callpath,
                    idleAtCall, activeAtCall, before, phase, behindFailed,
                    failedDocs, bvars, xvars >>

\* if not self.processing:   (the test in start_processing)
StartProcessingCheck(c) ==
    /\ cpc[c] = "sp_check"
    /\ IF ~processing
         THEN /\ cpc' = [cpc EXCEPT ![c] = "sp_set"]
              /\ UNCHANGED << ccall, returned >>
         ELSE Return(c)
    /\ UNCHANGED << queue, results, processing, wpc, wtask, ncalls, callpath,
                    idleAtCall, activeAtCall, before, phase, behindFailed,
                    failedDocs, bvars, xvars >>

\* self.processing = True
StartProcessingSet(c) ==
    /\ cpc[c] = "sp_set"
    /\ processing' = TRUE
    /\ cpc' = [cpc EXCEPT ![c] = "sp_start"]
    /\ UNCHANGED << queue, results, ccall, wpc, wtask, ncalls, ghost, bvars, xvars >>

\* self.worker_thread = threading.Thread(...); self.worker_thread.start(); return task_id
StartProcessingThread(c) ==
    /\ cpc[c] = "sp_start"
    /\ wpc' = [wpc EXCEPT ![ccall[c]] = "loop"]
    /\ Return(c)
    /\ UNCHANGED << queue, results, processing, wtask, ncalls, callpath,
                    idleAtCall, activeAtCall, before, phase, behindFailed,
                    failedDocs, bvars, xvars >>

\* ------------------------------------------------------- _process_queue
\* while not self.queue.empty():
WorkerCheck(w) ==
    /\ wpc[w] = "loop"
    /\ wpc' = [wpc EXCEPT ![w] = IF queue = << >> THEN "exit" ELSE "get"]
    /\ activeAtCall' = IF queue = << >>
                         THEN [n \in Calls |-> activeAtCall[n] /\ (n \in returned)]
                         ELSE activeAtCall
    /\ UNCHANGED << queue, results, processing, cpc, ccall, wtask, ncalls,
                    callpath, idleAtCall, before, returned, phase, behindFailed,
                    failedDocs, bvars, xvars >>

\* task_id, file_path, user_filters = self.queue.get()   (blocks while the queue is empty)
WorkerGet(w) ==
    /\ wpc[w] = "get"
    /\ queue # << >>
    /\ wtask' = [wtask EXCEPT ![w] = Head(queue).n]
    /\ queue' = Tail(queue)
    /\ wpc' = [wpc EXCEPT ![w] = "mark"]
    /\ UNCHANGED << results, processing, cpc, ccall, ncalls, ghost, bvars, xvars >>

\* with self.lock: self.results[task_id]["status"] = "processing"
\* A missing key raises KeyError outside the try block: the thread ends.
\* The assignment changes the dict in place: whoever holds that dict holds
\* the changed one.
WorkerMark(w) ==
    /\ wpc[w] = "mark"
    /\ LET id == TaskId(wtask[w]) IN
        IF results[id] = NoRec
          THEN /\ wpc' = [wpc EXCEPT ![w] = "crashed"]
               /\ phase' = [phase EXCEPT ![wtask[w]] = "lost"]
               /\ UNCHANGED << results, gres >>
          ELSE /\ wpc' = [wpc EXCEPT ![w] = "run"]
               /\ phase' = [phase EXCEPT ![wtask[w]] = "processing"]
               /\ results' = [results EXCEPT ![id].status = "processing"]
               /\ gres' = IF gheld /\ gid = id
                           THEN [gres EXCEPT !.status = "processing"]
                           ELSE gres
    /\ UNCHANGED << queue, processing, cpc, ccall, wtask, ncalls, callpath,
                    idleAtCall, activeAtCall, before, returned, behindFailed,
                    failedDocs, bvars, gid, gheld, grest >>

\* The record the worker stores after the analyze call: "completed" with the
\* returned value, or "failed" with str(e) when the call raised.
TerminalRec(o) ==
    IF o = "raise"
      THEN [status |-> "failed", data |-> Null, error |-> "message"]
      ELSE [status |-> "completed", data |-> ResultOf(o), error |-> Null]

\* try: result = self.processor.analyze_document[_with_filters](...);
\*      self.results[task_id] = {...}
\* except Exception as e: self.results[task_id] = {...}
\* self.queue.task_done()
\* Either assignment binds the key to a new dict.
WorkerStore(w) ==
    /\ wpc[w] = "run"
    /\ \E o \in Outcomes :
        /\ results' = [results EXCEPT ![TaskId(wtask[w])] = TerminalRec(o)]
        /\ behindFailed' = IF o = "ok" THEN behindFailed
                           ELSE behindFailed \cup { queue[i].n : i \in 1..Len(queue) }
        /\ failedDocs' = IF o = "ok" THEN failedDocs ELSE failedDocs \cup {wtask[w]}
    /\ gheld' = (gheld /\ gid # TaskId(wtask[w]))
    /\ phase' = [phase EXCEPT ![wtask[w]] = "terminal"]
    /\ wpc' = [wpc EXCEPT ![w] = "loop"]
    /\ wtask' = [wtask EXCEPT ![w] = 0]
    /\ UNCHANGED << queue, processing, cpc, ccall, ncalls, callpath,
                    idleAtCall, activeAtCall, before, returned, bvars,
                    gid, gres, grest >>

\* self.processing = False   (the thread ends)
WorkerExit(w) ==
    /\ wpc[w] = "exit"
    /\ processing' = FALSE
    /\ wpc' = [wpc EXCEPT ![w] = "dead"]
    /\ UNCHANGED << queue, results, cpc, ccall, wtask, ncalls, ghost, bvars, xvars >>

\* A thread calls add_task(file_path).
AddTask(c, p) ==
    /\ ppc = "off"
    /\ AddTaskPut(c, p)
    /\ UNCHANGED << bvars, xvars >>

CallerStep(c) ==
    \/ \E p \in Paths : AddTask(c, p)
    \/ AddTaskWrite(c)
    \/ AddTaskCheck(c)
    \/ StartProcessingCheck(c)
    \/ StartProcessingSet(c)
    \/ StartProcessingThread(c)

WorkerStep(w) ==
    \/ WorkerCheck(w)
    \/ WorkerGet(w)
    \/ WorkerMark(w)
    \/ WorkerStore(w)
    \/ WorkerExit(w)

Next ==
    \/ \E c \in Callers : CallerStep(c)
    \/ \E w \in Calls : WorkerStep(w)

Spec == Init /\ [][Next]_vars

\* The steps a thread takes once it is inside add_task.
CallerProgress(c) ==
    \/ AddTaskWrite(c)
    \/ AddTaskCheck(c)
    \/ StartProcessingCheck(c)
    \/ StartProcessingSet(c)
    \/ StartProcessingThread(c)

\* ------------------------------------------------------ process_resumes
\* st.session_state.batch_size
batch_size == 5

\* The file lists process_resumes is called with.
FileLists == UNION { [1..k -> Paths] : k \in 1..MaxAdds }

\* batch = file_paths[i:i+batch_size], as the positions it covers.
BatchEnd == IF bstart + batch_size < Len(files) THEN bstart + batch_size ELSE Len(files)

\* process_resumes has reset processing_files and resume_data and enters its
\* first batch.
BatchInit ==
    /\ QueueInit
    /\ XInit
    /\ files \in FileLists
    /\ ppc = "enqueue"

\* task_id = processor.queue_document_for_analysis(file_path, user_filters):
\* the call of add_task.
PQueue ==
    /\ ppc = "enqueue"
    /\ AddTaskPut(1, files[bstart + bidx])
    /\ ppc' = "adding"
    /\ UNCHANGED << files, bstart, bidx, task_ids, pfiles, resume_data, matches,
                    reported, xvars >>

\* add_task has returned: task_ids.append(task_id);
\* processing_files[task_id] = {..., "status": "queued"}; next file of the batch.
PRecord ==
    /\ ppc = "adding"
    /\ cpc[1] = "idle"
    /\ LET task_id == TaskId(ncalls) IN
        /\ task_ids' = Append(task_ids, task_id)
        /\ pfiles' = [pfiles EXCEPT ![task_id] = "queued"]
    /\ IF bstart + bidx < BatchEnd
         THEN /\ bidx' = bidx + 1
              /\ ppc' = "enqueue"
         ELSE /\ bidx' = 1
              /\ ppc' = "poll"
    /\ UNCHANGED << queue, results, processing, cpc, ccall, wpc, wtask, ncalls,
                    ghost, files, bstart, resume_data, matches, reported, xvars >>

\* One round of "for task_id in task_ids": result = get_queued_result(task_id)
\* and the update of processing_files / resume_data from it.
PPoll ==
    /\ ppc = "poll"
    /\ LET task_id == task_ids[bidx]
           result == results[task_id]
       IN
        /\ pfiles' =
             IF result.status = "completed"
               THEN [pfiles EXCEPT ![task_id] = "complete"]
               ELSE IF result.status = "failed"
                      THEN [pfiles EXCEPT ![task_id] = "error"]
                      ELSE pfiles
        /\ resume_data' =
             IF /\ result.status = "completed"
                /\ pfiles[task_id] # "complete"
                /\ result.data # Null
               THEN Append(resume_data, result.data)
               ELSE resume_data
    /\ IF bidx < Len(task_ids)
         THEN /\ bidx' = bidx + 1
              /\ ppc' = ppc
         ELSE /\ bidx' = 1
              /\ ppc' = "eval"
    /\ UNCHANGED << queue, results, processing, cpc, ccall, wpc, wtask, ncalls,
                    ghost, files, bstart, task_ids, matches, reported, xvars >>

\* all(processing_files[task_id]["status"] in ["complete", "error"] for task_id in task_ids)
BatchComplete == \A i \in 1..Len(task_ids) : pfiles[task_ids[i]] \in {"complete", "error"}

\* sum(1 for task in processing_files.values() if task["status"] == st)
CountStatus(pf, st) == Cardinality({ s \in Stems : pf[s] = st })

\* The records the analyze calls return, by name: "record" and the records
\* of other documents, and "error_record", the error-tagged record of
\* analyze_document, which has no 'match_score' key.
ScoredRecords == {"record", "record_low", "record_tie", "record_top", "record_zero"}

DataRecords == ScoredRecords \cup {"error_record"}

\* x['match_score'] of a record that has the key.
ScoreOf(x) ==
    CASE x = "record" -> 70
      [] x = "record_low" -> 40
      [] x = "record_tie" -> 70
      [] x = "record_top" -> 100
      [] x = "record_zero" -> 0

\* lambda x: x.get('match_score', 0)
ScoreKey(x) == IF x \in ScoredRecords THEN ScoreOf(x) ELSE 0

\* Where list.sort places x in a list already sorted by descending key:
\* behind every entry whose key is not smaller.
RECURSIVE InsertRanked(_, _)
InsertRanked(sorted, x) ==
    IF sorted = << >> THEN << x >>
    ELSE IF ScoreKey(Head(sorted)) >= ScoreKey(x)
           THEN << Head(sorted) >> \o InsertRanked(Tail(sorted), x)
           ELSE << x >> \o sorted

\* list.sort(key=..., reverse=True) of the first n entries: a stable sort.
RECURSIVE SortRanked(_, _)
SortRanked(list, n) ==
    IF n = 0 THEN << >> ELSE InsertRanked(SortRanked(list, n - 1), list[n])

\* The list sorted by ascending key, then reversed.
RECURSIVE InsertAscending(_, _)
InsertAscending(sorted, x) ==
    IF sorted = << >> THEN << x >>
    ELSE IF ScoreKey(Head(sorted)) <= ScoreKey(x)
           THEN << Head(sorted) >> \o InsertAscending(Tail(sorted), x)
           ELSE << x >> \o sorted

RECURSIVE SortAscending(_, _)
SortAscending(list, n) ==
    IF n = 0 THEN << >> ELSE InsertAscending(SortAscending(list, n - 1), list[n])

SortedThenReversed(list) ==
    LET up == SortAscending(list, Len(list))
    IN  [i \in 1..Len(list) |-> up[Len(list) + 1 - i]]

\* matches = resume_data; matches.sort(key=lambda x: x.get('match_score', 0), reverse=True)
SortedMatches(list) == SortRanked(list, Len(list))

\* filter_and_sort_matches(user_filters): matches is the list resume_data
\* itself, sorted in place.
filter_and_sort_matches ==
    /\ matches' = SortedMatches(resume_data)
    /\ resume_data' = matches'

\* batch_complete = all(...): sleep and poll again, or go on to the next
\* batch, or leave the loop, report the counts and rank the records.
PEval ==
    /\ ppc = "eval"
    /\ IF ~BatchComplete
         THEN /\ ppc' = "poll"
              /\ UNCHANGED << bstart, task_ids, reported, resume_data, matches >>
         ELSE IF bstart + batch_size < Len(files)
                THEN /\ ppc' = "enqueue"
                     /\ bstart' = bstart + batch_size
                     /\ task_ids' = << >>
                     /\ UNCHANGED << reported, resume_data, matches >>
                ELSE /\ ppc' = "done"
                     /\ reported' = [completed |-> CountStatus(pfiles, "complete"),
                                     errors |-> CountStatus(pfiles, "error")]
                     /\ filter_and_sort_matches
                     /\ UNCHANGED << bstart, task_ids >>
    /\ UNCHANGED << queue, results, processing, cpc, ccall, wpc, wtask, ncalls,
                    ghost, files, bidx, pfiles, xvars >>

ProcessResumesStep ==
    \/ PQueue
    \/ PRecord
    \/ PPoll
    \/ PEval

\* process_resumes runs in the session's thread against the queue's worker.
BatchNext ==
    \/ ProcessResumesStep
    \/ CallerProgress(1)
    \/ \E w \in Calls : WorkerStep(w)

BatchSpec == BatchInit /\ [][BatchNext]_vars

\* ------------------------------------------------ filter_and_sort_matches
MaxRanked == 3           \* records aggregated when the ranking starts

\* The lists resume_data may hold when the batch loop has ended.
RankLists == UNION { [1..k -> DataRecords] : k \in 0..MaxRanked }

\* process_resumes has left its batch loop with some records aggregated.
RankInit ==
    /\ WorkQueueInit
    /\ XInit
    /\ files = << >>
    /\ ppc = "rank"
    /\ resume_data \in RankLists
    /\ matches = << >>

\* The last statement of process_resumes: filter_and_sort_matches(user_filters).
RankCall ==
    /\ ppc = "rank"
    /\ filter_and_sort_matches
    /\ ppc' = "done"
    /\ UNCHANGED << queue, results, processing, cpc, ccall, wpc, wtask, ncalls,
                    ghost, files, bstart, bidx, task_ids, pfiles, reported, xvars >>

RankNext == RankCall

RankSpec == RankInit /\ [][RankNext]_vars

\* ------------------------------------------------- other specifications
\* One thread calls add_task (the batch loop of one session).
SingleNext ==
    \/ CallerStep(1)
    \/ \E w \in Calls : WorkerStep(w)

SingleSpec == Init /\ [][SingleNext]_vars

\* Every started thread keeps being scheduled: a worker thread that can take
\* a step takes it, and a call of add_task runs to its return. Nothing
\* obliges a caller to call add_task again.
FairSpec ==
    /\ Init
    /\ [][SingleNext]_vars
    /\ WF_vars(CallerProgress(1))
    /\ \A w \in Calls : WF_vars(WorkerStep(w))

\* ---------------------------------------------------------------- claims

\* The status values one task id may take in one step of the queue.
StatusStep(a, b) ==
    \/ a = b
    \/ a = "absent" /\ b = "queued"
    \/ a = "queued" /\ b = "processing"
    \/ a = "processing" /\ b \in {"completed", "failed"}

\* C1: the status stored for a task id only ever moves
\* queued -> processing -> (completed or failed): never back to an earlier
\* status, never to completed/failed without having been processing.
C1_StatusMonotonic ==
    [][\A s \in Stems : StatusStep(results[s].status, results'[s].status)]_vars

\* C2: single-consumer invariant: at most one worker thread running
\* _process_queue is alive at any time.
C2_SingleConsumer == Cardinality(AliveWorkers) <= 1

\* C3: every task that add_task has enqueued eventually reaches status
\* completed or failed, under fair scheduling.
C3_EveryTaskTerminates ==
    \A n \in Calls : (phase[n] = "inqueue") ~> (phase[n] = "terminal")

\* C4: when no add_task call is in progress and the queue still holds a
\* task, a worker thread is alive.
C4_NoOrphanedTask ==
    ((\A c \in Callers : cpc[c] = "idle") /\ queue # << >>) => AliveWorkers # {}

\* C5: FIFO completion: if add_task(A) returned before add_task(B) was
\* called, A is completed/failed before B becomes processing.
C5_FifoCompletion ==
    \A n \in Calls :
        phase[n] \in {"processing", "terminal"} =>
            \A m \in before[n] : phase[m] = "terminal"

\* C6: with a single caller, an add_task call made when no worker is running
\* starts exactly one worker thread, and a call made while a worker is inside
\* its drain loop starts none.
C6_WorkerStarts ==
    \A n \in returned :
        /\ idleAtCall[n] => wpc[n] # "unborn"
        /\ activeAtCall[n] => wpc[n] = "unborn"

\* C7: any two add_task calls return different task ids.
C7_UniqueTaskIds ==
    \A m, n \in returned : m # n => TaskId(m) # TaskId(n)

\* C8: completed implies data non-null and error null; failed implies data
\* null and error a string; queued or processing implies both null.
C8_RecordShape ==
    \A s \in Stems :
        LET r == results[s] IN
        /\ r.status = "completed" => (r.data # Null /\ r.error = Null)
        /\ r.status = "failed" => (r.data = Null /\ r.error # Null)
        /\ r.status \in {"queued", "processing"} => (r.data = Null /\ r.error = Null)

\* C9: when the extraction of a task fails, every task that was queued
\* behind it is still dequeued, processed and brought to a terminal state.
C9_FailureDoesNotAbort ==
    \A n \in Calls : (n \in behindFailed) ~> (phase[n] = "terminal")

\* The data records process_resumes has aggregated.
Aggregated == { resume_data[i] : i \in 1..Len(resume_data) }

\* C10: when process_resumes finishes, the errors it reports are the
\* documents whose extraction failed, the completed it reports are the
\* documents extracted successfully, and no error record is aggregated.
C10_BatchCounts ==
    ppc = "done" =>
        /\ reported.errors = Cardinality(failedDocs)
        /\ reported.completed = Len(files) - Cardinality(failedDocs)
        /\ "error_record" \notin Aggregated

\* ------------------------------------------------------------ get_result
MaxReaderAdds == 2       \* add_task calls in a behaviour that also reads the queue

\* The default of self.results.get(task_id, {...}).
UnknownRec == [status |-> "unknown", data |-> Null, error |-> Null]

\* self.results[task_id]: the stored record, with no default for a missing key.
GetResultIndexed(id) == results[id]

\* self.results.get(task_id, {"status": "unknown", "data": None, "error": None})
GetResultValue(id) == IF results[id] = NoRec THEN UnknownRec ELSE results[id]

\* with self.lock: return self.results.get(task_id, ...)
GetResult(id) ==
    /\ gid' = id
    /\ gres' = GetResultValue(id)
    /\ gheld' = (results[id] # NoRec)
    /\ UNCHANGED << qvars, bvars, grest >>

\* One thread calls add_task, any thread reads task records.
ReaderNext ==
    \/ \E p \in Paths : ncalls < MaxReaderAdds /\ AddTask(1, p)
    \/ CallerProgress(1)
    \/ \E w \in Calls : WorkerStep(w)
    \/ \E id \in Stems : GetResult(id)

ReaderSpec == Init /\ [][ReaderNext]_vars

\* No add_task call has been made for this task id.
NeverAdded(id) == \A n \in 1..ncalls : TaskId(n) # id

\* C11: get_result on a task id that add_task never produced returns the
\* record with status "unknown", data and error null, and leaves the queue,
\* the results table and the worker state as they were.
C11_UnknownTask ==
    [][\A id \in Stems :
          (GetResult(id) /\ NeverAdded(id)) =>
              /\ gres' = UnknownRec
              /\ UNCHANGED << queue, results, processing, wpc, wtask >>]_vars

\* C11 witness: with a completed task in the table, a lookup of an id that was
\* never enqueued has returned "unknown".
C11_Witness ==
    /\ gid = "bob"
    /\ NeverAdded("bob")
    /\ gres.status = "unknown"
    /\ results["cv"].status = "completed"

\* ------------------------------------------- RateLimiter: the methods
MaxLimiterOps == 25      \* limiter calls of one thread in one behaviour
MaxSuccesses == 1        \* success() calls of that thread
MaxConcOps == 3          \* limiter calls of concurrent threads in one behaviour
MaxTicks == 2            \* clock advances outside sleeps

\* Limiter calls that have returned.
LOps == cntWait + cntSuccess + cntFailure

\* Limiter calls made so far.
LStarted == LOps + Cardinality({ t \in LThreads : lpc[t] # "idle" })

\* with self.lock: a thread that ignores the lock.
LockIgnored == TRUE

\* with self.lock: the thread enters when no thread holds the lock.
LockAvailable == rlock = 0

\* max(self.current_delay / 1.2, 1)
SuccessOf(d) == Max((d * 10) \div 12, 1000)

\* min(self.current_delay * self.backoff_factor * jitter, self.max_delay)
FailureOf(d, j, mx) == Min((d * BackoffTenths * j) \div 100, mx)

\* wait() that never sleeps.
SleepNone(elapsed, d) == 0

\* if elapsed < self.current_delay: time.sleep(self.current_delay - elapsed)
SleepNeeded(elapsed, d) == IF elapsed < d THEN d - elapsed ELSE 0

\* failure() returning the delay it found.
FailureReturnOld(old, new) == old

\* return self.current_delay
FailureReturn(old, new) == new

\* A thread calls wait(), success() or failure() and takes the lock.
LBegin(t, op) ==
    /\ lpc[t] = "idle"
    /\ LockAvailable
    /\ rlock' = t
    /\ lpc' = [lpc EXCEPT ![t] = "read"]
    /\ lop' = [lop EXCEPT ![t] = op]
    /\ UNCHANGED << initial_delay, max_delay, current_delay, last_request_time,
                    now, ltmp, ljit, fret, lastop, cf, cntWait, cntSuccess,
                    cntFailure, nticks, prevStamp, waitDelay, seqDelay, seqLast >>

\* success(): the read of self.current_delay
SuccessRead(t) ==
    /\ lpc[t] = "read" /\ lop[t] = "success"
    /\ ltmp' = [ltmp EXCEPT ![t] = current_delay]
    /\ lpc' = [lpc EXCEPT ![t] = "write"]
    /\ UNCHANGED << initial_delay, max_delay, current_delay, last_request_time,
                    now, rlock, lop, ljit, fret, lastop, cf, cntWait, cntSuccess,
                    cntFailure, nticks, prevStamp, waitDelay, seqDelay, seqLast,
                    lrest >>

\* success(): self.current_delay = max(... / 1.2, 1); the lock is released
SuccessWrite(t) ==
    /\ lpc[t] = "write" /\ lop[t] = "success"
    /\ current_delay' = SuccessOf(ltmp[t])
    /\ seqDelay' = SuccessOf(seqDelay)
    /\ cf' = 0
    /\ cntSuccess' = cntSuccess + 1
    /\ lastop' = "success"
    /\ rlock' = 0
    /\ lpc' = [lpc EXCEPT ![t] = "idle"]
    /\ lop' = [lop EXCEPT ![t] = "none"]
    /\ UNCHANGED << initial_delay, max_delay, last_request_time, now, ltmp, ljit,
                    fret, cntWait, cntFailure, nticks, prevStamp, waitDelay, seqLast,
                    lrest >>

\* failure(): jitter = random.uniform(0.8, 1.2) and the read of self.current_delay
FailureRead(t) ==
    /\ lpc[t] = "read" /\ lop[t] = "failure"
    /\ \E j \in Jitters : ljit' = [ljit EXCEPT ![t] = j]
    /\ ltmp' = [ltmp EXCEPT ![t] = current_delay]
    /\ lpc' = [lpc EXCEPT ![t] = "write"]
    /\ UNCHANGED << initial_delay, max_delay, current_delay, last_request_time,
                    now, rlock, lop, fret, lastop, cf, cntWait, cntSuccess,
                    cntFailure, nticks, prevStamp, waitDelay, seqDelay, seqLast,
                    lrest >>

\* failure(): self.current_delay = min(...); return self.current_delay; the lock is released
FailureWrite(t) ==
    /\ lpc[t] = "write" /\ lop[t] = "failure"
    /\ current_delay' = FailureOf(ltmp[t], ljit[t], max_delay)
    /\ fret' = FailureReturn(ltmp[t], FailureOf(ltmp[t], ljit[t], max_delay))
    /\ seqDelay' = FailureOf(seqDelay, ljit[t], max_delay)
    /\ cf' = cf + 1
    /\ cntFailure' = cntFailure + 1
    /\ lastop' = "failure"
    /\ rlock' = 0
    /\ lpc' = [lpc EXCEPT ![t] = "idle"]
    /\ lop' = [lop EXCEPT ![t] = "none"]
    /\ UNCHANGED << initial_delay, max_delay, last_request_time, now, ltmp, ljit,
                    cntWait, cntSuccess, nticks, prevStamp, waitDelay, seqLast,
                    lrest >>

\* wait(): elapsed = time.time() - self.last_request_time and the test of it
WaitRead(t) ==
    /\ lpc[t] = "read" /\ lop[t] = "wait"
    /\ LET sleep == SleepNeeded(now - last_request_time, current_delay) IN
        /\ ltmp' = [ltmp EXCEPT ![t] = sleep]
        /\ lpc' = [lpc EXCEPT ![t] = IF sleep > 0 THEN "sleep" ELSE "write"]
    /\ waitDelay' = current_delay
    /\ UNCHANGED << initial_delay, max_delay, current_delay, last_request_time,
                    now, rlock, lop, ljit, fret, lastop, cf, cntWait, cntSuccess,
                    cntFailure, nticks, prevStamp, seqDelay, seqLast,
                    lrest >>

\* wait(): time.sleep(self.current_delay - elapsed); any longer sleep is a
\* Tick before the next step
WaitSleep(t) ==
    /\ lpc[t] = "sleep" /\ lop[t] = "wait"
    /\ now' = now + ltmp[t]
    /\ lpc' = [lpc EXCEPT ![t] = "write"]
    /\ UNCHANGED << initial_delay, max_delay, current_delay, last_request_time,
                    rlock, lop, ltmp, ljit, fret, lastop, cf, cntWait, cntSuccess,
                    cntFailure, nticks, prevStamp, waitDelay, seqDelay, seqLast,
                    lrest >>

\* wait(): self.last_request_time = time.time(); the lock is released
WaitStamp(t) ==
    /\ lpc[t] = "write" /\ lop[t] = "wait"
    /\ prevStamp' = last_request_time
    /\ last_request_time' = now
    /\ seqLast' = now
    /\ cntWait' = cntWait + 1
    /\ lastop' = "wait"
    /\ rlock' = 0
    /\ lpc' = [lpc EXCEPT ![t] = "idle"]
    /\ lop' = [lop EXCEPT ![t] = "none"]
    /\ UNCHANGED << initial_delay, max_delay, current_delay, now, ltmp, ljit,
                    fret, cf, cntSuccess, cntFailure, nticks, waitDelay, seqDelay,
                    lrest >>

\* Time passes.
Tick ==
    /\ nticks < MaxTicks
    /\ nticks' = nticks + 1
    /\ \E d \in {400, 1500} : now' = now + d
    /\ UNCHANGED << initial_delay, max_delay, current_delay, last_request_time,
                    rlock, lpc, lop, ltmp, ljit, fret, lastop, cf, cntWait,
                    cntSuccess, cntFailure, prevStamp, waitDelay, seqDelay, seqLast,
                    lrest >>

\* A thread that does nothing else calls a limiter method.
LimiterCall(t, op) == LBegin(t, op) /\ UNCHANGED lrest

\* The steps of a thread inside success() or failure().
DelayProgress(t) ==
    \/ SuccessRead(t)
    \/ SuccessWrite(t)
    \/ FailureRead(t)
    \/ FailureWrite(t)

\* The steps of a thread inside wait().
WaitProgress(t) ==
    \/ WaitRead(t)
    \/ WaitSleep(t)
    \/ WaitStamp(t)

\* The steps of a thread inside a limiter method.
LimiterProgress(t) ==
    \/ DelayProgress(t)
    \/ WaitProgress(t)

\* A limiter constructed with any of the initial delays.
LimiterAnyInit ==
    /\ QueueInit
    /\ files = << >>
    /\ ppc = "off"
    /\ ReaderInit
    /\ ParserInit
    /\ AnalyzeInit
    /\ FilterInit
    /\ \E init \in InitialDelays : LimiterInitWith(init)

\* One thread calls success() and failure() in any order.
LimiterNext ==
    \/ cntSuccess < MaxSuccesses /\ LStarted < MaxLimiterOps /\ LimiterCall(1, "success")
    \/ LStarted < MaxLimiterOps /\ LimiterCall(1, "failure")
    \/ DelayProgress(1)

LimiterSpec == LimiterAnyInit /\ [][LimiterNext]_vars

\* Threads call wait(), success() and failure() concurrently while time passes.
ConcNext ==
    \/ \E t \in LThreads, op \in {"wait", "success", "failure"} :
          LStarted < MaxConcOps /\ LimiterCall(t, op)
    \/ \E t \in LThreads : LimiterProgress(t)
    \/ Tick

ConcSpec == LimiterAnyInit /\ [][ConcNext]_vars

\* ------------------------------------------------- claims on the RateLimiter

\* C14: for every limiter constructed with initial_delay <= max_delay, after any
\* sequence of success() and failure() calls the delay stays within
\* initial_delay <= current_delay <= max_delay.
C14_DelayBounds ==
    /\ initial_delay <= current_delay
    /\ current_delay <= max_delay

\* Consecutive failure() calls that take a delay d to the cap mx when every
\* jitter drawn is the least one.
RECURSIVE StepsToCap(_, _)
StepsToCap(d, mx) ==
    IF d >= mx THEN 0 ELSE 1 + StepsToCap(FailureOf(d, 8, mx), mx)

\* The streak that takes the default limiter from its least delay to the cap.
CapAfter == StepsToCap(DefaultInitialDelay, DefaultMaxDelay)

\* A failure() call returns in this step.
FailureReturns == cntFailure' = cntFailure + 1

\* C15: each failure() call sets current_delay to
\* min(current_delay * backoff_factor * j, max_delay) for a jitter j in
\* [0.8, 1.2], returns the stored new value and never lowers the delay; after
\* CapAfter consecutive failure() calls on the default limiter current_delay
\* equals max_delay and further failures keep it there.
C15_FailureBackoff ==
    /\ [][FailureReturns =>
            /\ \E j \in Jitters :
                 current_delay' =
                     Min((current_delay * BackoffTenths * j) \div 100, max_delay)
            /\ fret' = current_delay'
            /\ current_delay' >= current_delay]_vars
    /\ [](initial_delay = DefaultInitialDelay /\ cf >= CapAfter
            => current_delay = max_delay)

\* C15 witness: on the default limiter a streak one longer than CapAfter has
\* returned the cap, after an earlier success() call.
C15_Witness ==
    /\ initial_delay = DefaultInitialDelay
    /\ cntSuccess = 1
    /\ cf = CapAfter + 1
    /\ lpc[1] = "idle"
    /\ current_delay = max_delay
    /\ fret = max_delay

\* A wait() call returns in this step.
WaitReturns == cntWait' = cntWait + 1

\* C16: when a wait() call returns, the timestamp it records is at least the
\* current_delay it compared against later than the timestamp of the wait()
\* before it, and is never earlier than that timestamp, whichever thread made
\* either call.
C16_WaitSpacing ==
    [][WaitReturns =>
          /\ last_request_time' >= last_request_time + waitDelay
          /\ last_request_time' >= last_request_time]_vars

\* C16 witness: a second wait() slept for the rest of a delay that a failure()
\* had raised, and stamped exactly that delay after the first.
C16_Witness ==
    /\ cntWait = 2
    /\ cntFailure = 1
    /\ lastop = "wait"
    /\ prevStamp > 0
    /\ waitDelay > initial_delay
    /\ last_request_time = prevStamp + waitDelay

\* Threads inside a limiter method.
InLimiter == { t \in LThreads : lpc[t] # "idle" }

\* C17: calls of wait(), success() and failure() by concurrent threads leave
\* (current_delay, last_request_time) as some sequential order of them does: at
\* most one thread is inside a method, so none reads current_delay between
\* another's read and write, and the fields equal those of the calls executed
\* one after another in the order they took the lock.
C17_Serialized ==
    /\ Cardinality(InLimiter) <= 1
    /\ InLimiter = {} => current_delay = seqDelay /\ last_request_time = seqLast

\* C17 witness: both threads have made calls, three in all with a success() and
\* two failure(), and the delay has moved.
C17_Witness ==
    /\ InLimiter = {}
    /\ ltmp[1] > 0
    /\ ltmp[2] > 0
    /\ cntSuccess = 1
    /\ cntFailure = 2
    /\ current_delay > initial_delay
    /\ current_delay = seqDelay

\* ------------------------------------------- _parse_response: JSON values
\* A Python string is the sequence of its characters. A decoded JSON value
\* carries its Python type; a dict is a function from its keys to values.
SVal(s) == [t |-> "str", v |-> s]
IVal(n) == [t |-> "int", v |-> n]
FVal(tenths) == [t |-> "float", v |-> tenths]
LVal(l) == [t |-> "list", v |-> l]
DVal(d) == [t |-> "dict", v |-> d]
NoneVal == [t |-> "null", v |-> 0]
InfVal == [t |-> "inf", v |-> 0]

\* What an expression evaluates to: a value, or the exception it raises.
Ok(x) == [exc |-> "", val |-> x]
Raise(e) == [exc |-> e, val |-> 0]

\* extracted_info[field] = value
Put(obj, k, x) == [f \in DOMAIN obj \cup {k} |-> IF f = k THEN x ELSE obj[f]]

Digits == << "0", "1", "2", "3", "4", "5", "6", "7", "8", "9" >>

IsDigit(c) == \E i \in 1..Len(Digits) : Digits[i] = c

DigitVal(c) == (CHOOSE i \in 1..Len(Digits) : Digits[i] = c) - 1

\* The number a string of digits denotes.
RECURSIVE NatOf(_)
NatOf(s) ==
    IF s = << >> THEN 0
    ELSE NatOf(SubSeq(s, 1, Len(s) - 1)) * Len(Digits) + DigitVal(s[Len(s)])

\* str(n) for n >= 0
RECURSIVE StrOfNat(_)
StrOfNat(n) ==
    IF n < Len(Digits) THEN << Digits[n + 1] >>
    ELSE StrOfNat(n \div Len(Digits)) \o << Digits[(n % Len(Digits)) + 1] >>

\* str(n)
StrOfInt(n) == IF n < 0 THEN << "-" >> \o StrOfNat(0 - n) ELSE StrOfNat(n)

\* s.strip() for the space character
RECURSIVE Strip(_)
Strip(s) ==
    IF s # << >> /\ s[1] = " " THEN Strip(Tail(s))
    ELSE IF s # << >> /\ s[Len(s)] = " " THEN Strip(SubSeq(s, 1, Len(s) - 1))
    ELSE s

\* int(s) for a string: optional blanks around an optional sign and digits
\* (digit-group underscores are not modelled).
IntOfStr(s) ==
    LET b == Strip(s)
        signed == b # << >> /\ b[1] \in {"-", "+"}
        d == IF signed THEN Tail(b) ELSE b
    IN  IF d # << >> /\ \A i \in 1..Len(d) : IsDigit(d[i])
        THEN Ok(IF signed /\ b[1] = "-" THEN 0 - NatOf(d) ELSE NatOf(d))
        ELSE Raise("ValueError")

\* int(x)
IntOf(x) ==
    CASE x.t = "int" -> Ok(x.v)
      [] x.t = "float" -> Ok(IF x.v < 0 THEN 0 - ((0 - x.v) \div Len(Digits))
                                        ELSE x.v \div Len(Digits))
      [] x.t = "str" -> IntOfStr(x.v)
      [] x.t = "inf" -> Raise("OverflowError")
      [] OTHER -> Raise("TypeError")

\* str(x) as an f-string renders it; a list or dict renders as one opaque mark.
Format(x) ==
    CASE x.t = "str" -> x.v
      [] x.t = "int" -> StrOfInt(x.v)
      [] x.t = "float" -> StrOfInt(IF x.v < 0 THEN 0 - ((0 - x.v) \div Len(Digits))
                                              ELSE x.v \div Len(Digits))
                           \o << "." >> \o StrOfNat((IF x.v < 0 THEN 0 - x.v ELSE x.v) % Len(Digits))
      [] x.t = "null" -> << "N", "o", "n", "e" >>
      [] x.t = "inf" -> << "i", "n", "f" >>
      [] OTHER -> << "repr" >>

\* s += x for a string s: x must be a string
StrAdd(r, x) ==
    IF r.exc # "" THEN r
    ELSE IF x.t = "str" THEN Ok(r.val \o x.v)
    ELSE Raise("TypeError")

\* s += text, for a text that is a string by construction
TextAdd(r, text) == IF r.exc # "" THEN r ELSE Ok(r.val \o text)

\* sep.join(parts) for parts that are strings
RECURSIVE JoinChars(_, _)
JoinChars(sep, parts) ==
    IF parts = << >> THEN << >>
    ELSE IF Len(parts) = 1 THEN parts[1]
    ELSE parts[1] \o sep \o JoinChars(sep, Tail(parts))

\* sep.join(l) for a list of values: every element must be a string
Join(sep, l) ==
    IF \A i \in 1..Len(l) : l[i].t = "str"
    THEN Ok(JoinChars(sep, [i \in 1..Len(l) |-> l[i].v]))
    ELSE Raise("TypeError")

CommaSep == << ",", " " >>
SemiSep == << ";", " " >>
FromSep == << " ", "f", "r", "o", "m", " " >>
AtSep == << " ", "a", "t", " " >>
OpenParen == << " ", "(" >>
CloseParen == << ")" >>
Bullet == << "-", " " >>
BulletSep == << "\n", "-", " " >>
GapHeader == << "A", "r", "e", "a", "s", " ", "f", "o", "r", " ", "i", "m", "p", "r", "o", "v", "e", "m", "e", "n", "t", ":" >>
NoGaps == << "N", "o", " ", "s", "i", "g", "n", "i", "f", "i", "c", "a", "n", "t", " ", "g", "a", "p", "s", " ", "i", "d", "e", "n", "t", "i", "f", "i", "e", "d", "." >>
NoAnalysis == << "N", "o", " ", "a", "n", "a", "l", "y", "s", "i", "s", " ", "a", "v", "a", "i", "l", "a", "b", "l", "e", "." >>
Unknown == << "U", "n", "k", "n", "o", "w", "n" >>

\* ------------------------------------ _parse_response: the normalisation
required_fields ==
    << "name", "email", "phone", "location", "experience", "skills",
       "work_history", "education", "linkedin", "github", "languages",
       "certifications" >>

ListFields ==
    { "work_history", "education", "skills", "languages", "certifications",
      "match_reasons", "gap_analysis" }

\* A fill that uses the empty string for every key.
FillWithStrings(obj) ==
    [f \in DOMAIN obj \cup { required_fields[i] : i \in 1..Len(required_fields) } |->
        IF f \in DOMAIN obj THEN obj[f] ELSE SVal(<< >>)]

\* for field in required_fields: if field not in extracted_info: ...
FillRequired(obj) ==
    [f \in DOMAIN obj \cup { required_fields[i] : i \in 1..Len(required_fields) } |->
        IF f \in DOMAIN obj THEN obj[f]
        ELSE IF f \in ListFields THEN LVal(<< >>) ELSE SVal(<< >>)]

\* A coercion without the inner handler: what int() raises leaves the try block.
NormExperienceStrict(obj) ==
    IF obj.experience.t = "null" THEN Ok(Put(obj, "experience", IVal(0)))
    ELSE LET r == IntOf(obj.experience) IN
         IF r.exc = "" THEN Ok(Put(obj, "experience", IVal(r.val))) ELSE r

\* extracted_info['experience'] = int(...) if ... is not None else 0,
\* with ValueError and TypeError turned into 0
NormExperience(obj) ==
    IF obj.experience.t = "null" THEN Ok(Put(obj, "experience", IVal(0)))
    ELSE LET r == IntOf(obj.experience) IN
         IF r.exc = "" THEN Ok(Put(obj, "experience", IVal(r.val)))
         ELSE IF r.exc \in {"ValueError", "TypeError"}
              THEN Ok(Put(obj, "experience", IVal(0)))
              ELSE r

\* if isinstance(extracted_info[f], list): extracted_info[f] = ', '.join(...)
NormJoined(obj, f) ==
    IF obj[f].t = "list"
    THEN LET r == Join(CommaSep, obj[f].v) IN
         IF r.exc = "" THEN Ok(Put(obj, f, SVal(r.val))) ELSE r
    ELSE Ok(obj)

\* One education entry: degree, " from " institution, " (year)", ", field"
EduStr(edu) ==
    LET a == IF "degree" \in DOMAIN edu THEN StrAdd(Ok(<< >>), edu.degree)
             ELSE Ok(<< >>)
        b == IF "institution" \in DOMAIN edu
             THEN StrAdd(IF a.exc = "" /\ a.val # << >> THEN TextAdd(a, FromSep) ELSE a,
                         edu.institution)
             ELSE a
        c == IF "year" \in DOMAIN edu
             THEN TextAdd(b, OpenParen \o Format(edu.year) \o CloseParen)
             ELSE b
    IN  IF "field" \in DOMAIN edu THEN TextAdd(c, CommaSep \o Format(edu.field)) ELSE c

\* One work_history entry: position, " at " company, " (dates)"
JobStr(job) ==
    LET a == IF "position" \in DOMAIN job THEN StrAdd(Ok(<< >>), job.position)
             ELSE Ok(<< >>)
        b == IF "company" \in DOMAIN job
             THEN StrAdd(IF a.exc = "" /\ a.val # << >> THEN TextAdd(a, AtSep) ELSE a,
                         job.company)
             ELSE a
    IN  IF "dates" \in DOMAIN job
        THEN TextAdd(b, OpenParen \o Format(job.dates) \o CloseParen)
        ELSE b

\* One languages entry: a dict with a name (and a proficiency), or a string;
\* the result is the list of parts it appends (none for any other entry). A
\* name that is no string fails at the += or at the join that follows.
LangStr(lang) ==
    IF lang.t = "dict" /\ "name" \in DOMAIN lang.v
    THEN LET a == StrAdd(Ok(<< >>), lang.v.name) IN
         IF a.exc # "" THEN a
         ELSE IF "proficiency" \in DOMAIN lang.v
              THEN Ok(<< a.val \o OpenParen \o Format(lang.v.proficiency) \o CloseParen >>)
              ELSE Ok(<< a.val >>)
    ELSE IF lang.t = "str" THEN Ok(<< lang.v >>)
    ELSE Ok(<< >>)

\* The dict entries of a list, each rendered by EduStr.
RECURSIVE EduParts(_)
EduParts(l) ==
    IF l = << >> THEN Ok(<< >>)
    ELSE IF l[1].t # "dict" THEN EduParts(Tail(l))
    ELSE LET s == EduStr(l[1].v) IN
         IF s.exc # "" THEN s
         ELSE LET rest == EduParts(Tail(l)) IN
              IF rest.exc # "" THEN rest ELSE Ok(<< s.val >> \o rest.val)

\* The dict entries of a list, each rendered by JobStr.
RECURSIVE JobParts(_)
JobParts(l) ==
    IF l = << >> THEN Ok(<< >>)
    ELSE IF l[1].t # "dict" THEN JobParts(Tail(l))
    ELSE LET s == JobStr(l[1].v) IN
         IF s.exc # "" THEN s
         ELSE LET rest == JobParts(Tail(l)) IN
              IF rest.exc # "" THEN rest ELSE Ok(<< s.val >> \o rest.val)

\* The parts of a languages list.
RECURSIVE LangParts(_)
LangParts(l) ==
    IF l = << >> THEN Ok(<< >>)
    ELSE LET s == LangStr(l[1]) IN
         IF s.exc # "" THEN s
         ELSE LET rest == LangParts(Tail(l)) IN
              IF rest.exc # "" THEN rest ELSE Ok(s.val \o rest.val)

\* if isinstance(extracted_info['education'], list): ... "; ".join(education_parts)
NormEducation(obj) ==
    IF obj.education.t = "list"
    THEN LET r == EduParts(obj.education.v) IN
         IF r.exc = "" THEN Ok(Put(obj, "education", SVal(JoinChars(SemiSep, r.val))))
         ELSE r
    ELSE Ok(obj)

\* if isinstance(extracted_info['languages'], list): ... ", ".join(language_parts)
NormLanguages(obj) ==
    IF obj.languages.t = "list"
    THEN LET r == LangParts(obj.languages.v) IN
         IF r.exc = "" THEN Ok(Put(obj, "languages", SVal(JoinChars(CommaSep, r.val))))
         ELSE r
    ELSE Ok(obj)

\* extracted_info['work_history_summary']
NormWorkHistory(obj) ==
    IF obj.work_history.t = "list" /\ obj.work_history.v # << >>
    THEN LET r == JobParts(obj.work_history.v) IN
         IF r.exc = ""
         THEN Ok(Put(obj, "work_history_summary", SVal(JoinChars(SemiSep, r.val))))
         ELSE r
    ELSE Ok(Put(obj, "work_history_summary", SVal(<< >>)))

\* extracted_info['match_reasons_text']
NormMatchReasons(obj) ==
    IF "match_reasons" \in DOMAIN obj /\ obj.match_reasons.t = "list"
    THEN LET r == Join(BulletSep, obj.match_reasons.v) IN
         IF r.exc = "" THEN Ok(Put(obj, "match_reasons_text", SVal(Bullet \o r.val)))
         ELSE r
    ELSE Ok(Put(obj, "match_reasons_text", SVal(<< >>)))

\* extracted_info['gap_analysis_text']
NormGapAnalysis(obj) ==
    IF /\ "gap_analysis" \in DOMAIN obj
       /\ obj.gap_analysis.t = "list"
       /\ obj.gap_analysis.v # << >>
    THEN LET r == Join(BulletSep, obj.gap_analysis.v) IN
         IF r.exc = ""
         THEN Ok(Put(obj, "gap_analysis_text",
                     SVal(GapHeader \o BulletSep \o r.val)))
         ELSE r
    ELSE Ok(Put(obj, "gap_analysis_text", SVal(NoGaps)))

\* if 'match_score' not in extracted_info: extracted_info['match_score'] = 0
NormMatchScore(obj) ==
    IF "match_score" \in DOMAIN obj THEN Ok(obj) ELSE Ok(Put(obj, "match_score", IVal(0)))

\* The next statement runs unless an earlier one raised.
Then(r, Step(_)) == IF r.exc # "" THEN r ELSE Step(r.val)

NormSkills(obj) == NormJoined(obj, "skills")

NormCertifications(obj) == NormJoined(obj, "certifications")

\* The statements of the try block after json.loads, in order.
Normalise(obj) ==
    Then(Then(Then(Then(Then(Then(Then(Then(
        NormExperience(FillRequired(obj)),
        NormSkills), NormEducation), NormLanguages), NormCertifications),
        NormWorkHistory), NormMatchReasons), NormGapAnalysis), NormMatchScore)

\* The record the except branch returns.
Fallback ==
    [ name |-> SVal(Unknown), email |-> SVal(<< >>), phone |-> SVal(<< >>),
      education |-> SVal(<< >>), experience |-> IVal(0), skills |-> SVal(<< >>),
      location |-> SVal(<< >>), linkedin |-> SVal(<< >>), github |-> SVal(<< >>),
      languages |-> SVal(<< >>), certifications |-> SVal(<< >>),
      work_history |-> LVal(<< >>), work_history_summary |-> SVal(<< >>),
      match_score |-> IVal(0), match_reasons |-> LVal(<< >>),
      match_reasons_text |-> SVal(<< >>), gap_analysis |-> LVal(<< >>),
      gap_analysis_text |-> SVal(NoAnalysis) ]

\* response.find(c): the 0-based index of the first c, or -1
Find(text, c) ==
    IF \E i \in 1..Len(text) : text[i] = c
    THEN (CHOOSE i \in 1..Len(text) :
             text[i] = c /\ \A j \in 1..(i - 1) : text[j] # c) - 1
    ELSE -1

\* response.rfind(c): the 0-based index of the last c, or -1
RFind(text, c) ==
    IF \E i \in 1..Len(text) : text[i] = c
    THEN (CHOOSE i \in 1..Len(text) :
             text[i] = c /\ \A j \in (i + 1)..Len(text) : text[j] # c) - 1
    ELSE -1

\* json_start >= 0 and json_end > json_start
HasSpan(text) == Find(text, "{") >= 0 /\ RFind(text, "}") + 1 > Find(text, "{")

\* response[json_start:json_end]
Span(text) == SubSeq(text, Find(text, "{") + 1, RFind(text, "}") + 1)

\* json.loads(json_str): the decoder's verdict on the span comes with the
\* response: the object it decodes to, or JSONDecodeError.
JsonLoads(response) ==
    IF response.valid THEN Ok(response.obj) ELSE Raise("JSONDecodeError")

\* The try block: what it returns, or the exception that reaches the handler.
ParseTry(response) ==
    IF HasSpan(response.text)
    THEN Then(JsonLoads(response), Normalise)
    ELSE Raise("ValueError")

\* A handler that lets the exception through.
HandlerReraises(r) == r

\* except Exception as e: ... return {fallback}
HandleParseError(r) == IF r.exc # "" THEN Ok(Fallback) ELSE r

\* _parse_response(response)
ParseResponse(response) == HandleParseError(ParseTry(response))

\* ---------------------------------------- _parse_response: the responses
MaxTextLen == 3          \* characters of a response, each "{", "}" or another

TextChars == {"{", "}", "x"}

\* The brace skeletons of the responses.
Texts == UNION { [1..n -> TextChars] : n \in 0..MaxTextLen }

Chars(w) ==
    CASE w = "Ann" -> << "A", "n", "n" >>
      [] w = "Go" -> << "G", "o" >>
      [] w = "Rust" -> << "R", "u", "s", "t" >>
      [] w = "BSc" -> << "B", "S", "c" >>
      [] w = "MIT" -> << "M", "I", "T" >>
      [] w = "CS" -> << "C", "S" >>
      [] w = "Dev" -> << "D", "e", "v" >>
      [] w = "Acme" -> << "A", "c", "m", "e" >>
      [] w = "2020" -> << "2", "0", "2", "0" >>
      [] w = "five" -> << "f", "i", "v", "e" >>
      [] w = " 12 " -> << " ", "1", "2", " " >>
      [] w = "-3" -> << "-", "3" >>
      [] w = "7" -> << "7" >>
      [] w = "5.5" -> << "5", ".", "5" >>
      [] w = "fit" -> << "f", "i", "t" >>
      [] w = "gap" -> << "g", "a", "p" >>
      [] w = "Hindi" -> << "H", "i", "n", "d", "i" >>
      [] w = "B2" -> << "B", "2" >>
      [] w = "up" -> << "u", "p" >>
      [] w = "cv" -> << "c", "v" >>
      [] w = "bob" -> << "b", "o", "b" >>
      [] w = "pdf" -> << "p", "d", "f" >>
      [] w = "docx" -> << "d", "o", "c", "x" >>
      [] w = "go,,a b ," -> << "g", "o", ",", ",", "a", " ", "b", " ", "," >>
      [] w = "5" -> << "5" >>
      [] w = "name" -> << "n", "a", "m", "e" >>
      [] w = "email" -> << "e", "m", "a", "i", "l" >>
      [] w = "phone" -> << "p", "h", "o", "n", "e" >>
      [] w = "location" -> << "l", "o", "c", "a", "t", "i", "o", "n" >>
      [] w = "experience" -> << "e", "x", "p", "e", "r", "i", "e", "n", "c", "e" >>
      [] w = "skills" -> << "s", "k", "i", "l", "l", "s" >>
      [] w = "work_history" -> << "w", "o", "r", "k", "_", "h", "i", "s", "t", "o", "r", "y" >>
      [] w = "education" -> << "e", "d", "u", "c", "a", "t", "i", "o", "n" >>
      [] w = "linkedin" -> << "l", "i", "n", "k", "e", "d", "i", "n" >>
      [] w = "github" -> << "g", "i", "t", "h", "u", "b" >>
      [] w = "languages" -> << "l", "a", "n", "g", "u", "a", "g", "e", "s" >>
      [] w = "certifications" -> << "c", "e", "r", "t", "i", "f", "i", "c", "a", "t", "i", "o", "n", "s" >>
      [] w = "match_score" -> << "m", "a", "t", "c", "h", "_", "s", "c", "o", "r", "e" >>
      [] w = "match_reasons" -> << "m", "a", "t", "c", "h", "_", "r", "e", "a", "s", "o", "n", "s" >>
      [] w = "gap_analysis" -> << "g", "a", "p", "_", "a", "n", "a", "l", "y", "s", "i", "s" >>
      [] w = "work_history_summary" -> << "w", "o", "r", "k", "_", "h", "i", "s", "t", "o", "r", "y", "_", "s", "u", "m", "m", "a", "r", "y" >>
      [] w = "match_reasons_text" -> << "m", "a", "t", "c", "h", "_", "r", "e", "a", "s", "o", "n", "s", "_", "t", "e", "x", "t" >>
      [] w = "gap_analysis_text" -> << "g", "a", "p", "_", "a", "n", "a", "l", "y", "s", "i", "s", "_", "t", "e", "x", "t" >>
      [] w = "position" -> << "p", "o", "s", "i", "t", "i", "o", "n" >>
      [] w = "company" -> << "c", "o", "m", "p", "a", "n", "y" >>
      [] w = "dates" -> << "d", "a", "t", "e", "s" >>
      [] w = "degree" -> << "d", "e", "g", "r", "e", "e" >>
      [] w = "institution" -> << "i", "n", "s", "t", "i", "t", "u", "t", "i", "o", "n" >>
      [] w = "year" -> << "y", "e", "a", "r" >>
      [] w = "field" -> << "f", "i", "e", "l", "d" >>
      [] w = "years_of_experience" -> << "y", "e", "a", "r", "s", "_", "o", "f", "_", "e", "x", "p", "e", "r", "i", "e", "n", "c", "e" >>
      [] w = "summary" -> << "s", "u", "m", "m", "a", "r", "y" >>
      [] w = "Bob" -> << "B", "o", "b" >>
      [] w = "Cy" -> << "C", "y" >>
      [] w = "Di" -> << "D", "i" >>
      [] w = "Python, Go" -> << "P", "y", "t", "h", "o", "n", ",", " ", "G", "o" >>
      [] w = "python" -> << "p", "y", "t", "h", "o", "n" >>
      [] w = "Java dev" -> << "J", "a", "v", "a", " ", "d", "e", "v" >>
      [] w = "java" -> << "j", "a", "v", "a" >>
      [] w = "Pune" -> << "P", "u", "n", "e" >>
      [] w = "5+ years" -> << "5", "+", " ", "y", "e", "a", "r", "s" >>
      [] w = "Python" -> << "P", "y", "t", "h", "o", "n" >>
      [] w = "Java" -> << "J", "a", "v", "a" >>
      [] w = "dev" -> << "d", "e", "v" >>
      [] w = "pune" -> << "p", "u", "n", "e" >>
      [] w = "PhD" -> << "P", "h", "D" >>
      [] w = "java dev" -> << "j", "a", "v", "a", " ", "d", "e", "v" >>
      [] w = "  " -> << " ", " " >>
      [] w = "go" -> << "g", "o" >>
      [] w = "xyz" -> << "x", "y", "z" >>
      [] w = "3" -> << "3" >>
      [] w = "rust, go" -> << "r", "u", "s", "t", ",", " ", "g", "o" >>
      [] w = "Ann's" -> << "A", "n", "n", "'", "s" >>

S(w) == SVal(Chars(w))

\* A function on the keys ks with the value vs[k] for each.
Only(ks, vs) == [k \in ks |-> vs[k]]

\* del obj[k]
Drop(obj, k) == [f \in DOMAIN obj \ {k} |-> obj[f]]

EduFull ==
    [ degree |-> S("BSc"), institution |-> S("MIT"), year |-> IVal(2020),
      field |-> S("CS") ]

JobFull == [ position |-> S("Dev"), company |-> S("Acme"), dates |-> S("2020") ]

\* A well-formed answer of the LLM to the prompt with filters.
BaseObj ==
    [ name |-> S("Ann"), email |-> SVal(<< "a", "@", "b" >>), phone |-> S("7"),
      location |-> S("MIT"), experience |-> IVal(5),
      skills |-> LVal(<< S("Go"), S("Rust") >>),
      work_history |-> LVal(<< DVal(JobFull) >>),
      education |-> LVal(<< DVal(EduFull) >>),
      linkedin |-> SVal(<< >>), github |-> SVal(<< >>),
      languages |-> LVal(<< S("Hindi") >>),
      certifications |-> LVal(<< >>),
      match_score |-> IVal(85),
      match_reasons |-> LVal(<< S("fit") >>),
      gap_analysis |-> LVal(<< S("gap") >>) ]

ExperienceValues ==
    { NoneVal, IVal(0), IVal(3), S("five"), S("7"), S(" 12 "), S("-3"), S("5.5"),
      SVal(<< >>), FVal(57), LVal(<< >>), DVal(JobFull), InfVal }

StringListValues ==
    { LVal(<< >>), LVal(<< S("Go") >>), LVal(<< S("Go"), S("Rust"), S("CS") >>),
      LVal(<< S("Go"), IVal(3) >>), LVal(<< NoneVal >>), S("Go"), NoneVal, IVal(3) }

EducationValues ==
    { LVal(<< DVal(Only(ks, EduFull)) >>) : ks \in SUBSET DOMAIN EduFull }
    \cup
    { LVal(<< >>), LVal(<< DVal(EduFull), DVal(Only({"degree"}, EduFull)) >>),
      LVal(<< S("BSc"), DVal(EduFull), IVal(3) >>),
      LVal(<< DVal([degree |-> IVal(3)]) >>),
      LVal(<< DVal([degree |-> S("BSc"), institution |-> NoneVal]) >>),
      LVal(<< DVal([year |-> S("2020"), field |-> NoneVal]) >>),
      S("BSc"), NoneVal }

WorkHistoryValues ==
    { LVal(<< DVal(Only(ks, JobFull)) >>) : ks \in SUBSET DOMAIN JobFull }
    \cup
    { LVal(<< >>), LVal(<< DVal(JobFull), DVal(Only({"company"}, JobFull)) >>),
      LVal(<< S("Dev"), DVal(JobFull) >>),
      LVal(<< DVal([position |-> IVal(3)]) >>),
      LVal(<< DVal([company |-> NoneVal]) >>),
      LVal(<< DVal([dates |-> IVal(2020)]) >>),
      S("Dev"), NoneVal }

LanguageValues ==
    { LVal(<< >>), LVal(<< S("Hindi"), DVal([name |-> S("Go")]) >>),
      LVal(<< DVal([name |-> S("Hindi"), proficiency |-> S("B2")]) >>),
      LVal(<< DVal([proficiency |-> S("B2")]), IVal(3), S("Go") >>),
      LVal(<< DVal([name |-> IVal(3)]) >>),
      LVal(<< DVal([name |-> NoneVal, proficiency |-> S("B2")]) >>),
      S("Hindi"), NoneVal }

MatchScoreValues == { IVal(0), IVal(100), S("7"), NoneVal }

\* The values a field of the decoded object takes in the responses.
FieldValues(f) ==
    CASE f = "experience" -> ExperienceValues
      [] f \in {"skills", "certifications", "match_reasons", "gap_analysis"} ->
            StringListValues
      [] f = "education" -> EducationValues
      [] f = "work_history" -> WorkHistoryValues
      [] f = "languages" -> LanguageValues
      [] f = "match_score" -> MatchScoreValues
      [] OTHER -> { SVal(<< >>), NoneVal, IVal(3) }

\* The objects json.loads returns: the well-formed answer with one field
\* changed or left out, and the empty object.
Objects ==
    { BaseObj, Only({}, BaseObj) }
    \cup UNION { { Put(BaseObj, f, x) : x \in FieldValues(f) } : f \in DOMAIN BaseObj }
    \cup { Drop(BaseObj, f) : f \in DOMAIN BaseObj }

\* The responses: a brace skeleton, and for one with a span the decoder's
\* verdict on it. The span "{}" decodes to the empty object.
Responses ==
    { [text |-> tx, valid |-> FALSE, obj |-> Only({}, BaseObj)] :
        tx \in { u \in Texts : ~HasSpan(u) \/ Span(u) # << "{", "}" >> } }
    \cup
    { r \in [text : { u \in Texts : HasSpan(u) }, valid : {TRUE}, obj : Objects] :
        (Span(r.text) = << "{", "}" >>) <=> (r.obj = Only({}, BaseObj)) }

\* _parse_response is called with a response.
ParseCall ==
    /\ pret = Pending
    /\ pret' = ParseResponse(presp)
    /\ UNCHANGED << presp, prest >>

\* A response of the LLM is handed to _parse_response.
ParserAnyInit ==
    /\ QueueInit
    /\ files = << >>
    /\ ppc = "off"
    /\ ReaderInit
    /\ LimiterInit
    /\ AnalyzeInit
    /\ FilterInit
    /\ presp \in Responses
    /\ pret = Pending

ParserNext == ParseCall

ParserSpec == ParserAnyInit /\ [][ParserNext]_vars

\* The call has returned or raised.
Parsed == pret # Pending

\* The response has no "{" before a "}", or its span is no JSON, or a
\* normalisation statement raises.
Malformed(response) ==
    \/ ~HasSpan(response.text)
    \/ ~response.valid
    \/ Normalise(response.obj).exc # ""

\* The empty value of a field's type.
EmptyValues == { SVal(<< >>), IVal(0), LVal(<< >>) }

\* C20 as stated: _parse_response returns a record for every response and
\* raises nothing; for a malformed response the record has name "Unknown",
\* match_score 0 and every other field empty.
C20_FallbackAllEmpty ==
    Parsed =>
        /\ pret.exc = ""
        /\ Malformed(presp) =>
              /\ pret.val.name = SVal(Unknown)
              /\ pret.val.match_score = IVal(0)
              /\ \A f \in DOMAIN pret.val \ {"name", "match_score"} :
                     pret.val[f] \in EmptyValues

\* C20, amended: _parse_response returns a record for every response and
\* raises nothing; for a malformed response the record is the fixed fallback:
\* name "Unknown", match_score 0, gap_analysis_text "No analysis available."
\* and every other field empty.
C20_ParseTotal ==
    Parsed =>
        /\ pret.exc = ""
        /\ Malformed(presp) =>
              /\ pret.val.name = SVal(Unknown)
              /\ pret.val.match_score = IVal(0)
              /\ pret.val.gap_analysis_text = SVal(NoAnalysis)
              /\ \A f \in DOMAIN pret.val \ {"name", "match_score", "gap_analysis_text"} :
                     pret.val[f] \in EmptyValues
              /\ DOMAIN pret.val = DOMAIN Fallback

\* C20 witness: a response whose span decodes to an object with a non-string
\* in its skills list came back as the fallback.
C20_Witness ==
    /\ Parsed
    /\ HasSpan(presp.text)
    /\ presp.valid
    /\ presp.obj = Put(BaseObj, "skills", LVal(<< S("Go"), IVal(3) >>))
    /\ pret = Ok(Fallback)

\* ------------------------------------ analyze_document and the retry wrapper
MaxAnalyzeCalls == 2     \* analyze_document calls in one behaviour
max_retries == 3
MinTextLen == 50
MaxTextChars == 30000

\* len(text) as get_text_from_file returns it: "" for a failed extraction, the
\* "Unsupported file format" notice, short and long documents.
TextLengths == { 0, 29, MinTextLen - 1, MinTextLen, MaxTextChars + 1 }

\* The responses the LLM gives in these calls: a well-formed answer, one with
\* no JSON in it, one whose skills list holds a number.
AResponses ==
    { [text |-> << "x", "{", "x", "}" >>, valid |-> TRUE, obj |-> BaseObj],
      [text |-> << "x", "x" >>, valid |-> FALSE, obj |-> Only({}, BaseObj)],
      [text |-> << "{", "x", "}" >>, valid |-> TRUE,
       obj |-> Put(BaseObj, "skills", LVal(<< S("Go"), IVal(3) >>))] }

\* The documents analysed: two files of different names.
APaths == { p \in Paths : p[3] = "pdf" }

\* str(file_path)
PathStr(p) == Chars(p[1]) \o << "/" >> \o Chars(p[2]) \o << "." >> \o Chars(p[3])

\* os.path.basename(file_path)
Basename(p) == Chars(p[2]) \o << "." >> \o Chars(p[3])

\* s[:n]
Take(s, n) == SubSeq(s, 1, Min(n, Len(s)))

\* raise Exception(f"Gemini API call failed: {str(e)}") for the i-th invocation,
\* whose underlying error reads "e<i>"
ApiError(i) == << "G", "e", "m", "i", "n", "i", " ", "A", "P", "I", " ", "c", "a", "l", "l", " ", "f", "a", "i", "l", "e", "d", ":", " " >> \o << "e" >> \o StrOfNat(i)

\* f"Maximum retries ({max_retries}) exceeded: {str(last_exception)}"
Exhausted(last) ==
    << "M", "a", "x", "i", "m", "u", "m", " ", "r", "e", "t", "r", "i", "e", "s", " ", "(" >> \o StrOfNat(max_retries)
    \o << ")", " ", "e", "x", "c", "e", "e", "d", "e", "d", ":", " " >> \o last

\* The message of the ValueError raised for an unreadable document.
Unreadable(p, n, filters) ==
    << "F", "a", "i", "l", "e", "d", " ", "t", "o", " ", "e", "x", "t", "r", "a", "c", "t", " ", "m", "e", "a", "n", "i", "n", "g", "f", "u", "l", " ", "t", "e", "x", "t", " ", "f", "r", "o", "m", " " >> \o PathStr(p)
    \o (IF filters THEN << "." >> ELSE << ".", " ", "T", "e", "x", "t", " ", "l", "e", "n", "g", "t", "h", ":", " " >> \o StrOfNat(n))

\* The record the except branch returns for an exception with message msg.
Sentinel(p, msg, filters) ==
    LET r == [ name |-> SVal(<< "E", "r", "r", "o", "r", ":", " " >> \o Take(msg, 50) \o << ".", ".", "." >>),
               email |-> SVal(<< >>), phone |-> SVal(<< >>),
               education |-> SVal(<< >>), experience |-> IVal(0),
               skills |-> SVal(<< >>), location |-> SVal(<< >>),
               filename |-> SVal(Basename(p)), file_path |-> SVal(PathStr(p)),
               error |-> SVal(msg) ]
    IN  IF filters THEN Put(r, "match_score", IVal(0)) ELSE r

\* The record returned when the import of google.generativeai had failed.
Unavailable(p, filters) ==
    LET r == Sentinel(p, << "G", "o", "o", "g", "l", "e", " ", "G", "e", "n", "e", "r", "a", "t", "i", "v", "e", " ", "A", "I", " ", "p", "a", "c", "k", "a", "g", "e", " ", "n", "o", "t", " ", "i", "n", "s", "t", "a", "l", "l", "e", "d" >>, filters)
    IN  Put(r, "name", SVal(<< "E", "r", "r", "o", "r", ":", " ", "G", "o", "o", "g", "l", "e", " ", "G", "e", "n", "e", "r", "a", "t", "i", "v", "e", " ", "A", "I", " ", "n", "o", "t", " ", "a", "v", "a", "i", "l", "a", "b", "l", "e" >>))

\* The limiter's fields and the calls it has seen.
LimiterSnap ==
    [w |-> cntWait, s |-> cntSuccess, f |-> cntFailure, d |-> current_delay,
     t |-> last_request_time]

\* A check that lets every text through.
TooShortNever(n) == FALSE

\* if not text or len(text) < 50
TooShort(n) == n = 0 \/ n < MinTextLen

\* A loop that allows one attempt more.
MayAttemptOneMore(a) == a <= max_retries

\* while attempts < max_retries
MayAttempt(a) == a < max_retries

\* A wrapper that reports a failure after a successful call.
AfterReturnFailure == "failure"

\* self.rate_limiter.success()
AfterReturn == "success"

\* A wrapper that goes on without sleeping.
NoSleep(wait_time) == 0

\* time.sleep(wait_time)
SleepTime(wait_time) == wait_time

\* A handler that catches nothing.
CatchesNothing(msg) == FALSE

\* except Exception as e
Catches(msg) == TRUE

\* A raised exception with its type and message.
Raised(type, msg) == [exc |-> type, val |-> msg]

\* analyze_document(file_path) or analyze_document_with_filters(file_path, ...)
\* is called: the GEMINI_AVAILABLE test.
AnalyzeCall(p, filters) ==
    /\ apc = "idle"
    /\ acalls < MaxAnalyzeCalls
    /\ acalls' = acalls + 1
    /\ afile' = p
    /\ afilt' = filters
    /\ alen' = 0
    /\ aexc' = << >>
    /\ rpc' = "off"
    /\ attempts' = 0
    /\ last_exception' = << >>
    /\ hist' = << >>
    /\ mresp' = NoResponse
    /\ rret' = Pending
    /\ sleeps' = << >>
    /\ snap' = LimiterSnap
    /\ IF gavail
       THEN apc' = "try" /\ aret' = Pending
       ELSE apc' = "done" /\ aret' = Ok(Unavailable(p, filters))
    /\ UNCHANGED << gavail, lvars, arest >>

\* text = get_text_from_file(file_path); if len(text) > 30000: text = text[:30000]
Extract ==
    /\ apc = "try"
    /\ \E n \in TextLengths : alen' = Min(n, MaxTextChars)
    /\ apc' = "check"
    /\ UNCHANGED << gavail, acalls, afile, afilt, aexc, aret, rpc, attempts,
                    last_exception, hist, mresp, rret, sleeps, snap, lvars, arest >>

\* if not text or len(text) < 50: raise ValueError(...); otherwise the prompt is
\* built and _call_gemini_with_retry(prompt) is entered: attempts = 0
CheckText ==
    /\ apc = "check"
    /\ IF TooShort(alen)
       THEN /\ aexc' = Unreadable(afile, alen, afilt)
            /\ apc' = "except"
            /\ rpc' = rpc
       ELSE /\ aexc' = aexc
            /\ apc' = "call"
            /\ rpc' = "top"
    /\ UNCHANGED << gavail, acalls, afile, afilt, alen, aret, attempts,
                    last_exception, hist, mresp, rret, sleeps, snap, lvars, arest >>

\* while attempts < max_retries: self.rate_limiter.wait()
RetryWait ==
    /\ rpc = "top"
    /\ MayAttempt(attempts)
    /\ LBegin(1, "wait")
    /\ rpc' = "waiting"
    /\ UNCHANGED << gavail, acalls, apc, afile, afilt, alen, aexc, aret, attempts,
                    last_exception, hist, mresp, rret, sleeps, snap, arest >>

\* The loop ends: raise Exception(f"Maximum retries ... {str(last_exception)}"),
\* which leaves the wrapper and lands in the caller's except branch.
RetryExhausted ==
    /\ rpc = "top"
    /\ ~MayAttempt(attempts)
    /\ rret' = Raised("Exception", Exhausted(last_exception))
    /\ rpc' = "off"
    /\ aexc' = Exhausted(last_exception)
    /\ apc' = "except"
    /\ UNCHANGED << gavail, acalls, afile, afilt, alen, aret, attempts,
                    last_exception, hist, mresp, sleeps, snap, lvars, arest >>

\* response = self._call_gemini(prompt) returns; self.rate_limiter.success()
RetryInvokeOk ==
    /\ rpc = "waiting"
    /\ lpc[1] = "idle"
    /\ \E r \in AResponses : mresp' = r
    /\ hist' = Append(hist, "ok")
    /\ LBegin(1, AfterReturn)
    /\ rpc' = "succeeding"
    /\ UNCHANGED << gavail, acalls, apc, afile, afilt, alen, aexc, aret, attempts,
                    last_exception, rret, sleeps, snap, arest >>

\* self._call_gemini(prompt) raises; except: last_exception = e; attempts += 1;
\* wait_time = self.rate_limiter.failure()
RetryInvokeRaise ==
    /\ rpc = "waiting"
    /\ lpc[1] = "idle"
    /\ hist' = Append(hist, "raise")
    /\ last_exception' = ApiError(Len(hist) + 1)
    /\ attempts' = attempts + 1
    /\ LBegin(1, "failure")
    /\ rpc' = "failing"
    /\ UNCHANGED << gavail, acalls, apc, afile, afilt, alen, aexc, aret, mresp,
                    rret, sleeps, snap, arest >>

\* return response
RetryReturn ==
    /\ rpc = "succeeding"
    /\ lpc[1] = "idle"
    /\ rret' = Ok(mresp)
    /\ rpc' = "off"
    /\ apc' = "parse"
    /\ UNCHANGED << gavail, acalls, afile, afilt, alen, aexc, aret, attempts,
                    last_exception, hist, mresp, sleeps, snap, lvars, arest >>

\* time.sleep(wait_time), and back to the loop test
RetrySleep ==
    /\ rpc = "failing"
    /\ lpc[1] = "idle"
    /\ sleeps' = Append(sleeps, SleepTime(fret))
    /\ now' = now + SleepTime(fret)
    /\ rpc' = "top"
    /\ UNCHANGED << gavail, acalls, apc, afile, afilt, alen, aexc, aret, attempts,
                    last_exception, hist, mresp, rret, snap, arest,
                    initial_delay, max_delay, current_delay, last_request_time,
                    rlock, lpc, lop, ltmp, ljit, fret, lastop, cf, cntWait,
                    cntSuccess, cntFailure, nticks, prevStamp, waitDelay,
                    seqDelay, seqLast >>

\* extracted_info = self._parse_response(response); the file name and path are
\* added and the record is returned
ParseStep ==
    /\ apc = "parse"
    /\ LET r == ParseResponse(rret.val) IN
         IF r.exc = ""
         THEN /\ aret' = Ok(Put(Put(r.val, "filename", SVal(Basename(afile))),
                                "file_path", SVal(PathStr(afile))))
              /\ apc' = "done"
              /\ aexc' = aexc
         ELSE /\ aret' = aret
              /\ apc' = "except"
              /\ aexc' = << r.exc >>
    /\ UNCHANGED << gavail, acalls, afile, afilt, alen, rpc, attempts,
                    last_exception, hist, mresp, rret, sleeps, snap, lvars, arest >>

\* except Exception as e: ... return {sentinel with 'error': str(e)}
ExceptStep ==
    /\ apc = "except"
    /\ IF Catches(aexc)
       THEN /\ aret' = Ok(Sentinel(afile, aexc, afilt))
            /\ apc' = "done"
       ELSE /\ aret' = Raised("Exception", aexc)
            /\ apc' = "escaped"
    /\ UNCHANGED << gavail, acalls, afile, afilt, alen, aexc, rpc, attempts,
                    last_exception, hist, mresp, rret, sleeps, snap, lvars, arest >>

\* The caller has taken the returned record; the call's locals are gone.
AnalyzeReturn ==
    /\ apc = "done"
    /\ apc' = "idle"
    /\ afile' = << >>
    /\ afilt' = FALSE
    /\ alen' = 0
    /\ aexc' = << >>
    /\ aret' = Pending
    /\ attempts' = 0
    /\ last_exception' = << >>
    /\ hist' = << >>
    /\ mresp' = NoResponse
    /\ rret' = Pending
    /\ sleeps' = << >>
    /\ snap' = NoSnap
    /\ UNCHANGED << gavail, acalls, rpc, lvars, arest >>

\* One thread calls analyze_document and analyze_document_with_filters on a
\* processor whose import of google.generativeai succeeded or failed.
AnalyzeAnyInit ==
    /\ QueueInit
    /\ files = << >>
    /\ ppc = "off"
    /\ ReaderInit
    /\ ParserInit
    /\ LimiterInit
    /\ FilterInit
    /\ gavail \in BOOLEAN
    /\ AnalyzeIdle

AnalyzeNext ==
    \/ \E p \in APaths, filters \in BOOLEAN : AnalyzeCall(p, filters)
    \/ Extract
    \/ CheckText
    \/ RetryWait
    \/ RetryInvokeOk
    \/ RetryInvokeRaise
    \/ RetrySleep
    \/ RetryReturn
    \/ RetryExhausted
    \/ ParseStep
    \/ ExceptStep
    \/ AnalyzeReturn
    \/ LimiterProgress(1)

AnalyzeSpec == AnalyzeAnyInit /\ [][AnalyzeNext]_vars

\* ------------------------------- claims on the retry wrapper and analyze

\* The limiter calls of the current wrapper call.
Waits == cntWait - snap.w

Successes == cntSuccess - snap.s

Failures == cntFailure - snap.f

\* k raising invocations followed by one that returned.
FailThenOk(k) == [i \in 1..(k + 1) |-> IF i <= k THEN "raise" ELSE "ok"]

\* n raising invocations.
AllRaise(n) == [i \in 1..n |-> "raise"]

\* C12: when the model call raises on its first k invocations (k < max_retries)
\* and returns on invocation k+1, _call_gemini_with_retry makes no further
\* invocation and returns that response; the limiter has then seen k+1 wait(),
\* k failure() and one success() from this call, and every invocation is made
\* right after a wait() of its own.
C12_RetrySuccess ==
    /\ [](/\ (hist # << >> /\ hist[Len(hist)] = "ok") =>
               /\ hist = FailThenOk(Len(hist) - 1)
               /\ Len(hist) - 1 < max_retries
               /\ rpc \in {"succeeding", "off"}
               /\ rpc = "off" => rret = Ok(mresp)
          /\ rret.exc = "" =>
               /\ hist = FailThenOk(Len(hist) - 1)
               /\ Waits = Len(hist)
               /\ Failures = Len(hist) - 1
               /\ Successes = 1)
    /\ [][Len(hist') = Len(hist) + 1 =>
            /\ Waits = Len(hist')
            /\ lastop = "wait"]_vars

\* C12 witness: in a second analyze call the model raised twice and then
\* answered, and the wrapper returned the answer after two failure() and one
\* success().
C12_Witness ==
    /\ acalls = 2
    /\ snap.w > 0
    /\ hist = FailThenOk(2)
    /\ rret = Ok(mresp)
    /\ mresp.valid
    /\ Waits = 3
    /\ Failures = 2
    /\ Successes = 1

\* C13: when the model call raises on every invocation, the wrapper invokes it
\* max_retries times and never more, calls failure() max_retries times and
\* success() never, and raises one error whose message ends with the message
\* of the last invocation's exception; analyze_document catches it and returns.
C13_RetryExhausted ==
    /\ Len(hist) <= max_retries
    /\ apc # "escaped"
    /\ (hist = AllRaise(max_retries) /\ rpc = "off") => rret.exc = "Exception"
    /\ rret.exc = "Exception" =>
         /\ hist = AllRaise(max_retries)
         /\ Failures = max_retries
         /\ Successes = 0
         /\ Waits = max_retries
         /\ last_exception = ApiError(max_retries)
         /\ rret.val = Exhausted(last_exception)
         /\ SubSeq(rret.val, Len(rret.val) - Len(last_exception) + 1, Len(rret.val))
              = last_exception
         /\ apc \in {"except", "done"}
         /\ apc = "done" => aret.exc = ""

\* C13 witness: the first analyze_document call returned after the wrapper
\* gave up on three raising invocations.
C13_Witness ==
    /\ acalls = 1
    /\ ~afilt
    /\ apc = "done"
    /\ hist = AllRaise(max_retries)
    /\ rret.exc = "Exception"
    /\ Failures = max_retries
    /\ aret.exc = ""

\* C18: analyze_document and analyze_document_with_filters raise nothing and
\* return a record with the file's name and path, whatever text extraction,
\* the retry wrapper and the parser did; when the text was unreadable or
\* the wrapper gave up, the record carries that failure's message under 'error'.
C18_AnalyzeNeverRaises ==
    /\ apc # "escaped"
    /\ apc = "done" =>
         /\ aret.exc = ""
         /\ aret.val.filename = SVal(Basename(afile))
         /\ aret.val.file_path = SVal(PathStr(afile))
         /\ (gavail /\ alen < MinTextLen) =>
               /\ "error" \in DOMAIN aret.val
               /\ aret.val.error = SVal(Unreadable(afile, alen, afilt))
         /\ rret.exc = "Exception" =>
               /\ "error" \in DOMAIN aret.val
               /\ aret.val.error = SVal(rret.val)
         /\ ~gavail => "error" \in DOMAIN aret.val
         /\ rret.exc = "" => aret.val.name = ParseResponse(rret.val).val.name

\* C18 witness: a second call, with filters, returned the sentinel of an
\* exhausted wrapper after a first call had returned a parsed record.
C18_Witness ==
    /\ acalls = 2
    /\ afilt
    /\ apc = "done"
    /\ snap.s = 1
    /\ rret.exc = "Exception"
    /\ aret.val.error = SVal(rret.val)
    /\ aret.val.match_score = IVal(0)

\* C19: when the extracted text is empty or shorter than 50 characters the call
\* ends with the error sentinel, no wait() and no model invocation has been
\* made for it, and the limiter's current_delay and last_request_time are
\* what they were when the call began.
C19_FailFast ==
    (gavail /\ apc \in {"check", "call", "parse", "except", "done"} /\ alen < MinTextLen) =>
        /\ apc \in {"check", "except", "done"}
        /\ hist = << >>
        /\ rpc = "off"
        /\ LimiterSnap = snap
        /\ apc = "done" =>
              /\ aret.exc = ""
              /\ "error" \in DOMAIN aret.val
              /\ aret.val.error = SVal(Unreadable(afile, alen, afilt))

\* C19 witness: after a first call that raised the limiter's delay, a second
\* call on an unreadable document returned the sentinel and left the limiter
\* as it found it.
C19_Witness ==
    /\ acalls = 2
    /\ apc = "done"
    /\ alen = MinTextLen - 1
    /\ snap.w > 0
    /\ snap.d > initial_delay
    /\ LimiterSnap = snap
    /\ "error" \in DOMAIN aret.val

\* ------------------------------------------- claims on the parsed record

\* The keys whose missing value is an empty list.
ListTyped == {"work_history", "education", "skills", "languages", "certifications"}

\* The twelve keys every record holds.
RequiredKeys ==
    { "name", "email", "phone", "location", "experience", "skills",
      "work_history", "education", "linkedin", "github", "languages",
      "certifications" }

\* The response's span decodes to an object.
Decodes(response) == HasSpan(response.text) /\ response.valid

\* C21: every record _parse_response returns, normal or fallback, holds the
\* twelve required keys; a key the decoded object lacks is filled with an empty
\* list (list-typed) or an empty string (scalar) before the fields are flattened.
C21_RequiredKeys ==
    Parsed =>
        /\ pret.exc = ""
        /\ RequiredKeys \subseteq DOMAIN pret.val
        /\ Decodes(presp) =>
              /\ RequiredKeys \subseteq DOMAIN FillRequired(presp.obj)
              /\ \A f \in RequiredKeys \ DOMAIN presp.obj :
                    FillRequired(presp.obj)[f] =
                        IF f \in ListTyped THEN LVal(<< >>) ELSE SVal(<< >>)
              /\ \A f \in DOMAIN presp.obj :
                    FillRequired(presp.obj)[f] = presp.obj[f]
              /\ ("work_history" \notin DOMAIN presp.obj /\ ~Malformed(presp)) =>
                    pret.val.work_history = LVal(<< >>)

\* C21 witness: the empty object came back with every required key, the
\* scalar ones empty strings and work_history an empty list.
C21_Witness ==
    /\ Parsed
    /\ Decodes(presp)
    /\ DOMAIN presp.obj = {}
    /\ RequiredKeys \subseteq DOMAIN pret.val
    /\ pret.val.name = SVal(<< >>)
    /\ pret.val.work_history = LVal(<< >>)
    /\ pret.val.experience = IVal(0)

\* The object is the well-formed answer except, at most, in the fields fs.
SameAsBaseExcept(obj, fs) ==
    \A f \in DOMAIN BaseObj \ fs : f \in DOMAIN obj /\ obj[f] = BaseObj[f]

\* A string int() rejects: empty, or holding a character that is no digit,
\* blank or sign.
NonNumeric(s) ==
    \/ s = << >>
    \/ \E i \in 1..Len(s) : ~IsDigit(s[i]) /\ s[i] \notin {" ", "-", "+"}

\* s1, s2, ..., sn with ", " between neighbours, built from the left.
RECURSIVE CommaList(_, _)
CommaList(l, n) ==
    IF n = 0 THEN << >>
    ELSE IF n = 1 THEN l[1].v
    ELSE CommaList(l, n - 1) \o << ",", " " >> \o l[n].v

\* C22: for every object the parser decodes the output experience is an
\* integer, and it is 0 when the input value is missing, null or a string that
\* is no number; the rest of the record is kept in that case. A skills list of
\* strings comes out as the strings joined by ", " in input order, the empty
\* list as the empty string.
C22_ExperienceAndSkills ==
    (Parsed /\ pret.exc = "") =>
        /\ pret.val.experience.t = "int"
        /\ (Decodes(presp) /\ SameAsBaseExcept(presp.obj, {"experience"})) =>
              /\ ( \/ "experience" \notin DOMAIN presp.obj
                   \/ presp.obj.experience.t = "null"
                   \/ /\ presp.obj.experience.t = "str"
                      /\ NonNumeric(presp.obj.experience.v) )
                 => /\ pret.val.experience = IVal(0)
                    /\ pret.val.name = BaseObj.name
              /\ ("experience" \in DOMAIN presp.obj /\ presp.obj.experience.t = "int")
                 => pret.val.experience = presp.obj.experience
        /\ ( /\ Decodes(presp)
             /\ SameAsBaseExcept(presp.obj, {"skills"})
             /\ "skills" \in DOMAIN presp.obj
             /\ presp.obj.skills.t = "list"
             /\ \A i \in 1..Len(presp.obj.skills.v) : presp.obj.skills.v[i].t = "str" )
           => pret.val.skills =
                  SVal(CommaList(presp.obj.skills.v, Len(presp.obj.skills.v)))

\* C22 witness: the answer with experience "five" came back with experience 0,
\* its name, and its skills ["Go", "Rust"] as "Go, Rust".
C22_Witness ==
    /\ Parsed
    /\ Decodes(presp)
    /\ presp.obj = Put(BaseObj, "experience", S("five"))
    /\ pret.val.experience = IVal(0)
    /\ pret.val.name = S("Ann")
    /\ pret.val.skills = SVal(<< "G", "o", ",", " ", "R", "u", "s", "t" >>)

\* The rendering of one education entry as described: "<degree> from
\* <institution> (<year>), <field>", an absent part left out, " from " left out
\* when no degree precedes it and ", " left out when nothing precedes the field.
DescribedEdu(edu) ==
    LET d == IF "degree" \in DOMAIN edu THEN edu.degree.v ELSE << >>
        i == IF "institution" \in DOMAIN edu
             THEN (IF d # << >> THEN << " ", "f", "r", "o", "m", " " >> ELSE << >>)
                  \o edu.institution.v
             ELSE << >>
        y == IF "year" \in DOMAIN edu
             THEN << " ", "(" >> \o StrOfInt(edu.year.v) \o << ")" >>
             ELSE << >>
        f == IF "field" \in DOMAIN edu
             THEN (IF d \o i \o y # << >> THEN << ",", " " >> ELSE << >>)
                  \o edu.field.v
             ELSE << >>
    IN  d \o i \o y \o f

\* The described renderings of the first n entries with "; " between them.
RECURSIVE DescribedEducation(_, _)
DescribedEducation(l, n) ==
    IF n = 0 THEN << >>
    ELSE IF n = 1 THEN DescribedEdu(l[1].v)
    ELSE DescribedEducation(l, n - 1) \o << ";", " " >> \o DescribedEdu(l[n].v)

\* An education list whose entries are objects holding a subset of the four
\* sub-parts with values of the expected types.
PlainEducation(e) ==
    /\ e.t = "list"
    /\ \A k \in 1..Len(e.v) :
          /\ e.v[k].t = "dict"
          /\ \E ks \in SUBSET DOMAIN EduFull : e.v[k].v = Only(ks, EduFull)

\* C23: every education entry, whatever subset of degree, institution, year and
\* field it holds, is rendered as described (no " from " without a degree, no
\* ", " before a field that stands alone), and the entries are joined with "; "
\* in input order.
C23_EducationFlattening ==
    ( /\ Parsed
      /\ Decodes(presp)
      /\ SameAsBaseExcept(presp.obj, {"education"})
      /\ "education" \in DOMAIN presp.obj
      /\ PlainEducation(presp.obj.education) )
    => /\ pret.exc = ""
       /\ pret.val.education =
              SVal(DescribedEducation(presp.obj.education.v,
                                      Len(presp.obj.education.v)))

\* ------------------------------------------------ components/filter.py
\* A resume is a dict in insertion order: a sequence of [k, v] with the key as
\* characters. The criteria are a decoded JSON object, keyed by field name.

UpperCase ==
    << "A", "B", "C", "D", "E", "F", "G", "H", "I", "J", "K", "L", "M",
       "N", "O", "P", "Q", "R", "S", "T", "U", "V", "W", "X", "Y", "Z" >>

LowerCase ==
    << "a", "b", "c", "d", "e", "f", "g", "h", "i", "j", "k", "l", "m",
       "n", "o", "p", "q", "r", "s", "t", "u", "v", "w", "x", "y", "z" >>

\* s.lower()
Lower(s) ==
    [i \in 1..Len(s) |->
        IF \E j \in 1..Len(UpperCase) : UpperCase[j] = s[i]
        THEN LowerCase[CHOOSE j \in 1..Len(UpperCase) : UpperCase[j] = s[i]]
        ELSE s[i]]

\* sub in text
In(sub, text) ==
    \E i \in 0..(Len(text) - Len(sub)) : SubSeq(text, i + 1, i + Len(sub)) = sub

\* repr(s) for a string: quoted with ', or with " when the string holds a '
\* and no "; backslash, newline and the quote are escaped.
ReprStr(s) ==
    LET q == IF (\E i \in 1..Len(s) : s[i] = "'") /\ ~(\E i \in 1..Len(s) : s[i] = "\"")
             THEN "\"" ELSE "'"
        esc(c) == IF c = "\n" THEN << "\\", "n" >>
                  ELSE IF c = "\\" \/ c = q THEN << "\\", c >>
                  ELSE << c >>
    IN  << q >> \o JoinChars(<< >>, [i \in 1..Len(s) |-> esc(s[i])]) \o << q >>

\* repr(x); a dict here is a sequence of [k, v] in insertion order
RECURSIVE Repr(_)
Repr(x) ==
    CASE x.t = "str" -> ReprStr(x.v)
      [] x.t = "list" ->
            << "[" >> \o JoinChars(CommaSep, [i \in 1..Len(x.v) |-> Repr(x.v[i])])
                      \o << "]" >>
      [] x.t = "dict" ->
            << "{" >>
            \o JoinChars(CommaSep,
                         [i \in 1..Len(x.v) |->
                             ReprStr(x.v[i].k) \o << ":", " " >> \o Repr(x.v[i].v)])
            \o << "}" >>
      [] OTHER -> Format(x)

\* str(x)
Str(x) == IF x.t = "str" THEN x.v ELSE Repr(x)

\* bool(x)
Truthy(x) ==
    CASE x.t = "null" -> FALSE
      [] x.t \in {"int", "float"} -> x.v # 0
      [] OTHER -> x.v # << >>

\* float(s) for a string, in tenths: optional blanks around an optional sign,
\* digits and an optional fraction (its first digit is kept; exponents, inf and
\* nan are not modelled).
FloatOfStr(s) ==
    LET b == Strip(s)
        signed == b # << >> /\ b[1] \in {"-", "+"}
        d == IF signed THEN Tail(b) ELSE b
        dot == Find(d, ".")
        whole == IF dot < 0 THEN d ELSE SubSeq(d, 1, dot)
        frac == IF dot < 0 THEN << >> ELSE SubSeq(d, dot + 2, Len(d))
        tenths == NatOf(whole) * Len(Digits)
                  + (IF frac = << >> THEN 0 ELSE DigitVal(frac[1]))
    IN  IF /\ whole \o frac # << >>
           /\ \A i \in 1..Len(whole) : IsDigit(whole[i])
           /\ \A i \in 1..Len(frac) : IsDigit(frac[i])
        THEN Ok(IF signed /\ b[1] = "-" THEN 0 - tenths ELSE tenths)
        ELSE Raise("ValueError")

\* float(x), in tenths
FloatOf(x) ==
    CASE x.t = "int" -> Ok(x.v * Len(Digits))
      [] x.t = "float" -> Ok(x.v)
      [] x.t = "str" -> FloatOfStr(x.v)
      [] OTHER -> Raise("TypeError")

\* s.split(sep) for a one-character separator: the pieces between the
\* separators, empty ones kept
RECURSIVE SplitOn(_, _)
SplitOn(s, sep) ==
    LET i == Find(s, sep)
    IN  IF i < 0 THEN << s >>
        ELSE << SubSeq(s, 1, i) >> \o SplitOn(SubSeq(s, i + 2, Len(s)), sep)

\* s.split(): the runs of characters between blanks (the space is the only
\* whitespace of the model)
Split(s) == SelectSeq(SplitOn(s, " "), LAMBDA w : w # << >>)

\* resume.get(key, default)
RECURSIVE DictGet(_, _, _)
DictGet(d, key, default) ==
    IF d = << >> THEN default
    ELSE IF d[Len(d)].k = key THEN d[Len(d)].v
    ELSE DictGet(SubSeq(d, 1, Len(d) - 1), key, default)

\* filters.get(key)
Get(obj, key) == IF key \in DOMAIN obj THEN obj[key] ELSE NoneVal

\* ------------------------------------------------ filter.py: the functions

\* for x in value: the elements of a list, the characters of a string
Items(x) ==
    CASE x.t = "list" -> Ok(x.v)
      [] x.t = "str" -> Ok([i \in 1..Len(x.v) |-> SVal(<< x.v[i] >>)])
      [] OTHER -> Raise("TypeError")

\* any(item.lower() in resume_text for item in items): stops at the first hit
RECURSIVE AnyIn(_, _)
AnyIn(items, resume_text) ==
    IF items = << >> THEN Ok(FALSE)
    ELSE IF items[1].t # "str" THEN Raise("AttributeError")
    ELSE IF In(Lower(items[1].v), resume_text) THEN Ok(TRUE)
    ELSE AnyIn(Tail(items), resume_text)

\* if filters.get(key): if not any(... for item in filters[key]): return False
\* The value is TRUE when the function goes on to its next statement.
AnyCheck(filters, key, resume_text) ==
    IF ~Truthy(Get(filters, key)) THEN Ok(TRUE)
    ELSE LET items == Items(filters[key])
         IN  IF items.exc # "" THEN items ELSE AnyIn(items.val, resume_text)

\* if filters.get(key) and filters[key] is not None:
\*     if filters[key].lower() not in resume_text: return False
SubstringCheck(filters, key, resume_text) ==
    IF ~Truthy(Get(filters, key)) THEN Ok(TRUE)
    ELSE IF filters[key].t # "str" THEN Raise("AttributeError")
    ELSE Ok(In(Lower(filters[key].v), resume_text))

YearsKey ==
    << "y", "e", "a", "r", "s", "_", "o", "f", "_",
       "e", "x", "p", "e", "r", "i", "e", "n", "c", "e" >>

\* An experience test that also turns away a resume with exactly the minimum.
ExperienceCheckStrict(resume, filters, resume_text) ==
    IF ~Truthy(Get(filters, "experience_years")) THEN Ok(TRUE)
    ELSE LET a == FloatOf(DictGet(resume, YearsKey, IVal(0)))
             b == FloatOf(filters.experience_years)
         IN  IF a.exc = "" /\ b.exc = "" THEN Ok(a.val > b.val)
             ELSE Ok(In(Str(filters.experience_years) \o << "+" >>, resume_text))

\* if filters.get('experience_years'): ... float(experience) <
\* float(filters['experience_years']), and the "<N>+" text match when a float()
\* raises ValueError or TypeError
ExperienceCheck(resume, filters, resume_text) ==
    IF ~Truthy(Get(filters, "experience_years")) THEN Ok(TRUE)
    ELSE LET experience == DictGet(resume, YearsKey, IVal(0))
             a == FloatOf(experience)
             b == FloatOf(filters.experience_years)
         IN  IF a.exc = "" /\ b.exc = "" THEN Ok(~(a.val < b.val))
             ELSE Ok(In(Str(filters.experience_years) \o << "+" >>, resume_text))

\* The first check that does not pass decides: return False, or its exception.
RECURSIVE FirstFailure(_)
FirstFailure(checks) ==
    IF checks = << >> THEN Ok(TRUE)
    ELSE IF checks[1].exc = "" /\ checks[1].val THEN FirstFailure(Tail(checks))
    ELSE checks[1]

\* str(resume).lower()
ResumeText(resume) == Lower(Str(DVal(resume)))

\* matches_filters(resume, filters)
matches_filters(resume, filters) ==
    LET resume_text == ResumeText(resume)
    IN  FirstFailure(<< AnyCheck(filters, "skills", resume_text),
                        ExperienceCheck(resume, filters, resume_text),
                        SubstringCheck(filters, "education", resume_text),
                        AnyCheck(filters, "job_titles", resume_text),
                        SubstringCheck(filters, "location", resume_text),
                        AnyCheck(filters, "keywords", resume_text) >>)

\* [kw.strip().lower() for kw in query.split() if len(kw.strip()) > n]
Keywords(query, n) ==
    LET long == SelectSeq(Split(query), LAMBDA kw : Len(Strip(kw)) > n)
    IN  [i \in 1..Len(long) |-> Lower(Strip(long[i]))]

\* A keyword filter that never falls back to the short words.
KeywordFilterLongOnly(query, resumes) ==
    LET keywords == Keywords(query, 2)
    IN  IF keywords = << >> THEN resumes
        ELSE SelectSeq(resumes,
                       LAMBDA resume :
                           \E i \in 1..Len(keywords) :
                               In(keywords[i], ResumeText(resume)))

\* simple_keyword_filter(query, resumes)
simple_keyword_filter(query, resumes) ==
    LET keywords == IF Keywords(query, 2) # << >> THEN Keywords(query, 2)
                    ELSE Keywords(query, 0)
    IN  IF keywords = << >> THEN resumes
        ELSE SelectSeq(resumes,
                       LAMBDA resume :
                           \E i \in 1..Len(keywords) :
                               In(keywords[i], ResumeText(resume)))

\* The criteria process_nlp_query builds by hand.
BasicFilters(query) ==
    LET parts == SplitOn(query, ",")
    IN  [ skills |-> LVal([i \in 1..Len(parts) |-> SVal(Strip(parts[i]))]),
          experience_years |-> IVal(0),
          education |-> NoneVal,
          job_titles |-> LVal(<< >>),
          location |-> NoneVal,
          keywords |-> LVal(<< SVal(query) >>) ]

\* The try block of process_nlp_query: gemini is what
\* processor._call_gemini_with_retry(prompt) returns or raises. The value is
\* the criteria the block returns, or the exception that reaches the handler.
QueryTry(query, gemini) ==
    IF gemini.exc # "" THEN gemini
    ELSE IF HasSpan(Strip(gemini.val.text)) THEN JsonLoads(gemini.val)
    ELSE Ok(BasicFilters(query))

\* A handler that lets the exception through.
QueryHandlerReraises(r, query) == r

\* except Exception as e: ... return {the criteria built by hand}
HandleQueryError(r, query) == IF r.exc # "" THEN Ok(BasicFilters(query)) ELSE r

\* process_nlp_query(query, processor)
process_nlp_query(query, gemini) == HandleQueryError(QueryTry(query, gemini), query)

\* A structured pass whose empty result is returned as it is.
NoBackup(filtered_resumes, query, resumes) == filtered_resumes

\* if not filtered_resumes: filtered_resumes = simple_keyword_filter(query, resumes)
KeywordBackup(filtered_resumes, query, resumes) ==
    IF filtered_resumes = << >> THEN simple_keyword_filter(query, resumes)
    ELSE filtered_resumes

\* A filter that asks the model whatever it is given.
NeverEarly(query, resumes) == FALSE

\* if not query or not resumes: return resumes
EarlyReturn(query, resumes) == query = << >> \/ resumes = << >>

\* filter_resumes_with_nlp(query, processor, resumes)
filter_resumes_with_nlp(query, gemini, resumes) ==
    IF EarlyReturn(query, resumes) THEN resumes
    ELSE LET r == process_nlp_query(query, gemini)
             filters == r.val
         IN  IF r.exc # "" THEN simple_keyword_filter(query, resumes)
             ELSE IF \E i \in 1..Len(resumes) :
                         matches_filters(resumes[i], filters).exc # ""
             THEN simple_keyword_filter(query, resumes)
             ELSE KeywordBackup(SelectSeq(resumes,
                                          LAMBDA resume :
                                              matches_filters(resume, filters).val),
                                query, resumes)

\* ------------------------------------------------ filter.py: the calls

\* The longest list of resumes handed to a filter.
MaxResumes == 2

\* One entry of a resume.
Entry(key, value) == [k |-> Chars(key), v |-> value]

\* The keys of an extracted record in the order the prompt lists them, then
\* the keys _parse_response adds.
RecordKeys ==
    << "name", "email", "phone", "location", "experience", "skills",
       "work_history", "education", "linkedin", "github", "languages",
       "certifications", "match_score", "match_reasons", "gap_analysis",
       "position", "company", "dates", "degree", "institution", "year", "field",
       "work_history_summary", "match_reasons_text", "gap_analysis_text" >>

\* A decoded value as Python holds it: each dict as its entries in key order.
RECURSIVE AsPython(_)
AsPython(x) ==
    CASE x.t = "list" -> LVal([i \in 1..Len(x.v) |-> AsPython(x.v[i])])
      [] x.t = "dict" ->
            LET ks == SelectSeq(RecordKeys, LAMBDA key : key \in DOMAIN x.v)
            IN  DVal([i \in 1..Len(ks) |-> Entry(ks[i], AsPython(x.v[ks[i]]))])
      [] OTHER -> x

\* The record _parse_response returns for the well-formed answer whose
\* experience is n years.
PipelineRecord(n) ==
    AsPython(DVal(ParseResponse([text |-> << "{", "}" >>, valid |-> TRUE,
                                 obj |-> Put(BaseObj, "experience", IVal(n))]).val)).v

PipelineYears == {2, 5}

\* Resumes whose experience is under the key matches_filters reads.
KeyedResumes ==
    { << Entry("name", S("Ann")), Entry("skills", S("Python, Go")),
         Entry("years_of_experience", IVal(5)), Entry("location", S("Pune")),
         Entry("education", S("BSc")) >>,
      << Entry("name", S("Bob")), Entry("skills", S("python")),
         Entry("years_of_experience", IVal(2)) >>,
      << Entry("name", S("Cy")), Entry("skills", S("Java dev")),
         Entry("years_of_experience", IVal(3)) >>,
      << Entry("name", S("Di")), Entry("summary", S("java")),
         Entry("years_of_experience", S("5+ years")) >>,
      << Entry("name", S("Ann's")), Entry("skills", S("go")) >> }

Resumes == KeyedResumes \cup { PipelineRecord(n) : n \in PipelineYears }

\* The lists handed to the filters: up to MaxResumes of the keyed resumes, and
\* each pipeline record alone.
ResumeLists ==
    UNION { [1..n -> KeyedResumes] : n \in 0..MaxResumes }
    \cup { << PipelineRecord(n) >> : n \in PipelineYears }

Queries ==
    { << >>, Chars("  "), Chars("Python"), Chars("java dev"), Chars("go"),
      Chars("xyz"), Chars("rust, go"), Chars("go,,a b ,") }

\* The criteria the LLM answers with.
Criteria ==
    [ skills : { NoneVal, LVal(<< >>), LVal(<< S("Python") >>),
                 LVal(<< S("Java"), S("Go") >>) },
      experience_years : { NoneVal, IVal(0), IVal(3), FVal(25) },
      education : { NoneVal, SVal(<< >>), S("BSc") },
      job_titles : { NoneVal, LVal(<< S("Dev") >>) },
      location : { NoneVal, S("pune") },
      keywords : { NoneVal, LVal(<< S("java"), S("Ann") >>) } ]

AllNull ==
    [ skills |-> NoneVal, experience_years |-> NoneVal, education |-> NoneVal,
      job_titles |-> NoneVal, location |-> NoneVal, keywords |-> NoneVal ]

\* Answers with a value of another type, or with a key left out.
OddCriteria ==
    { Put(AllNull, "skills", S("go")),
      Put(AllNull, "skills", IVal(3)),
      Put(AllNull, "skills", LVal(<< S("python"), IVal(3) >>)),
      Put(AllNull, "skills", LVal(<< IVal(3), S("python") >>)),
      Put(AllNull, "experience_years", S("3")),
      Put(AllNull, "experience_years", S("5")),
      Put(AllNull, "experience_years", S("five")),
      Put(AllNull, "experience_years", LVal(<< IVal(5) >>)),
      Put(AllNull, "education", LVal(<< S("BSc") >>)),
      Put(AllNull, "location", IVal(3)),
      Drop(AllNull, "skills"),
      Only({}, AllNull) }

\* What _call_gemini_with_retry does for the prompt of process_nlp_query: it
\* raises after its last attempt, or returns a text (with what json.loads makes
\* of its span).
GeminiOutcomes ==
    { Raised("Exception", Exhausted(ApiError(max_retries))) }
    \cup
    { Ok([text |-> << "n", "o" >>, valid |-> FALSE, obj |-> << >>]),
      Ok([text |-> << "{", "x", "}" >>, valid |-> FALSE, obj |-> << >>]) }
    \cup
    { Ok([text |-> << " ", "{", "}", " " >>, valid |-> TRUE, obj |-> c]) :
        c \in { Put(Put(AllNull, "skills", LVal(<< S("Python") >>)),
                    "experience_years", IVal(3)),
                Put(AllNull, "keywords", LVal(<< S("java") >>)),
                Put(AllNull, "location", S("PhD")),
                Put(AllNull, "experience_years", IVal(3)),
                Put(AllNull, "skills", LVal(<< IVal(3) >>)),
                AllNull } }

\* matches_filters(resume, filters) is called.
MatchesFiltersCall ==
    /\ fop = "matches_filters"
    /\ fout = Pending
    /\ fout' = matches_filters(fresumes[1], ffilters)
    /\ UNCHANGED << fop, fquery, fgemini, fresumes, ffilters, fcalls, frest >>

\* simple_keyword_filter(query, resumes) is called.
SimpleKeywordFilterCall ==
    /\ fop = "simple_keyword_filter"
    /\ fout = Pending
    /\ fout' = Ok(simple_keyword_filter(fquery, fresumes))
    /\ UNCHANGED << fop, fquery, fgemini, fresumes, ffilters, fcalls, frest >>

\* filter_resumes_with_nlp(query, processor, resumes) is called; ffilters
\* keeps the criteria process_nlp_query returned.
FilterResumesCall ==
    /\ fop = "filter_resumes_with_nlp"
    /\ fout = Pending
    /\ fout' = Ok(filter_resumes_with_nlp(fquery, fgemini, fresumes))
    /\ ffilters' = IF \/ EarlyReturn(fquery, fresumes)
                      \/ process_nlp_query(fquery, fgemini).exc # ""
                   THEN ffilters
                   ELSE process_nlp_query(fquery, fgemini).val
    /\ fcalls' = IF EarlyReturn(fquery, fresumes) THEN fcalls ELSE fcalls + 1
    /\ UNCHANGED << fop, fquery, fgemini, fresumes, frest >>

\* process_nlp_query(query, processor) is called.
ProcessNlpQueryCall ==
    /\ fop = "process_nlp_query"
    /\ fout = Pending
    /\ fout' = process_nlp_query(fquery, fgemini)
    /\ fcalls' = fcalls + 1
    /\ UNCHANGED << fop, fquery, fgemini, fresumes, ffilters, frest >>

\* One call of a function of filter.py with arguments of the sets above.
FilterAnyInit ==
    /\ QueueInit
    /\ files = << >>
    /\ ppc = "off"
    /\ ReaderInit
    /\ LimiterInit
    /\ ParserInit
    /\ AnalyzeInit
    /\ fout = Pending
    /\ fcalls = 0
    /\ \/ /\ fop = "matches_filters"
          /\ fquery = << >>
          /\ fgemini = Pending
          /\ fresumes \in { << r >> : r \in Resumes }
          /\ ffilters \in Criteria \cup OddCriteria
       \/ /\ fop = "simple_keyword_filter"
          /\ fquery \in Queries
          /\ fgemini = Pending
          /\ fresumes \in ResumeLists
          /\ ffilters = << >>
       \/ /\ fop = "filter_resumes_with_nlp"
          /\ fquery \in Queries
          /\ fgemini \in GeminiOutcomes
          /\ fresumes \in ResumeLists
          /\ ffilters = << >>
       \/ /\ fop = "process_nlp_query"
          /\ fquery \in Queries
          /\ fgemini \in GeminiOutcomes
          /\ fresumes = << >>
          /\ ffilters = << >>

FilterNext ==
    \/ MatchesFiltersCall
    \/ SimpleKeywordFilterCall
    \/ FilterResumesCall
    \/ ProcessNlpQueryCall

FilterSpec == FilterAnyInit /\ [][FilterNext]_vars

\* ------------------------------------------------ claims on filter.py

\* The call has returned or raised.
Filtered == fout # Pending

\* The criterion is given: not null, not an empty string or list, not zero.
Given(filters, key) ==
    /\ key \in DOMAIN filters
    /\ filters[key].t # "null"
    /\ filters[key].t \in {"str", "list"} => Len(filters[key].v) > 0
    /\ filters[key].t \in {"int", "float"} => filters[key].v # 0

\* The criteria have the types the prompt asks for.
TypedCriteria(filters) ==
    /\ \A key \in {"skills", "job_titles", "keywords"} \cap DOMAIN filters :
          \/ filters[key].t = "null"
          \/ /\ filters[key].t = "list"
             /\ \A i \in 1..Len(filters[key].v) : filters[key].v[i].t = "str"
    /\ \A key \in {"education", "location"} \cap DOMAIN filters :
          filters[key].t \in {"null", "str"}
    /\ "experience_years" \in DOMAIN filters =>
          filters.experience_years.t \in {"null", "int", "float"}

\* The resume's years_of_experience is a whole number, or the key is absent
\* (which counts as 0 years).
WholeYears(resume) == DictGet(resume, Chars("years_of_experience"), IVal(0)).t = "int"

\* Ten times the number, which makes 2.5 a whole number.
Tenfold(x) == IF x.t = "int" THEN 10 * x.v ELSE x.v

\* Some string of the list is, case-folded, a piece of the text.
SomeWithin(list, text) == \E i \in 1..Len(list) : In(Lower(list[i].v), text)

\* Every criterion that is given holds of the resume.
EveryCriterionHolds(resume, filters) ==
    LET text == ResumeText(resume)
    IN  /\ Given(filters, "skills") => SomeWithin(filters.skills.v, text)
        /\ Given(filters, "experience_years") =>
              10 * DictGet(resume, Chars("years_of_experience"), IVal(0)).v
                 >= Tenfold(filters.experience_years)
        /\ Given(filters, "education") => In(Lower(filters.education.v), text)
        /\ Given(filters, "job_titles") => SomeWithin(filters.job_titles.v, text)
        /\ Given(filters, "location") => In(Lower(filters.location.v), text)
        /\ Given(filters, "keywords") => SomeWithin(filters.keywords.v, text)

PythonAndThreeYears ==
    Put(Put(AllNull, "skills", LVal(<< S("Python") >>)), "experience_years", IVal(3))

\* C24: matches_filters keeps a resume exactly when every criterion that is
\* neither null nor empty holds (skills, job titles and keywords: some entry is
\* a case-insensitive substring of the flattened text; education and location:
\* the string is; experience: years_of_experience >= experience_years). With
\* {skills: ["Python"], experience_years: 3} a resume holding "python" is kept
\* with 3 or more years and turned away with 2.
C24_MatchesFilters ==
    ( /\ fop = "matches_filters"
      /\ Filtered
      /\ TypedCriteria(ffilters)
      /\ WholeYears(fresumes[1]) )
    => /\ fout.exc = ""
       /\ fout.val <=> EveryCriterionHolds(fresumes[1], ffilters)
       /\ ( /\ ffilters = PythonAndThreeYears
            /\ In(<< "p", "y", "t", "h", "o", "n" >>, ResumeText(fresumes[1])) )
          => ( fout.val <=>
                  DictGet(fresumes[1], Chars("years_of_experience"), IVal(0)).v >= 3 )

\* C24 witness: the resume with "Python, Go" and 5 years was kept under
\* {skills: ["Python"], experience_years: 3}.
C24_Witness ==
    /\ fop = "matches_filters"
    /\ Filtered
    /\ ffilters = PythonAndThreeYears
    /\ DictGet(fresumes[1], Chars("years_of_experience"), NoneVal) = IVal(5)
    /\ In(<< "p", "y", "t", "h", "o", "n" >>, ResumeText(fresumes[1]))
    /\ fout = Ok(TRUE)

\* The resume is a record _parse_response returned.
FromPipeline(resume) == \E n \in PipelineYears : resume = PipelineRecord(n)

\* Of the six criteria only the experience minimum is given.
OnlyExperienceGiven(filters) ==
    /\ Given(filters, "experience_years")
    /\ \A key \in {"skills", "education", "job_titles", "location", "keywords"} :
          ~Given(filters, key)

\* C25: the experience criterion is evaluated on the extracted experience-year
\* count, which _parse_response stores under 'experience': a pipeline record
\* whose count is at least the minimum is not turned away by the experience
\* check, and one whose count is below the minimum is.
C25_PipelineExperience ==
    ( /\ fop = "matches_filters"
      /\ Filtered
      /\ FromPipeline(fresumes[1])
      /\ TypedCriteria(ffilters)
      /\ OnlyExperienceGiven(ffilters) )
    => /\ fout.exc = ""
       /\ fout.val <=>
             10 * DictGet(fresumes[1], Chars("experience"), IVal(0)).v
                >= Tenfold(ffilters.experience_years)

\* The structured pass ran to its end: matches_filters raised for no resume.
PassCompletes ==
    \A i \in 1..Len(fresumes) : matches_filters(fresumes[i], ffilters).exc = ""

\* The first n resumes that matches_filters keeps, in their order.
RECURSIVE StructuredMatches(_)
StructuredMatches(n) ==
    IF n = 0 THEN << >>
    ELSE StructuredMatches(n - 1)
         \o (IF matches_filters(fresumes[n], ffilters).val THEN << fresumes[n] >>
             ELSE << >>)

\* The keyword tokens of the query: its words of more than two characters,
\* or all its words when none is that long; case-folded.
QueryTokens(query) ==
    LET words == { Split(query)[i] : i \in 1..Len(Split(query)) }
        long == { w \in words : Len(w) > 2 }
    IN  { Lower(w) : w \in IF long # {} THEN long ELSE words }

\* Some resume of the list holds one of the query's keyword tokens.
SomeResumeHasToken ==
    \E i \in 1..Len(fresumes), token \in QueryTokens(fquery) :
        In(token, ResumeText(fresumes[i]))

\* filter_resumes_with_nlp returned for a query and a list that are not empty.
FilterRan ==
    /\ fop = "filter_resumes_with_nlp"
    /\ Filtered
    /\ fquery # << >>
    /\ fresumes # << >>

\* C26: for a non-empty query and a non-empty list, when the structured pass
\* keeps no record filter_resumes_with_nlp returns simple_keyword_filter(query,
\* records), so its result is not empty when a record holds one of the
\* query's keyword tokens; when the pass keeps a record the result is the
\* structured matches and the keyword filter is not applied.
C26_ZeroMatchFallback ==
    (FilterRan /\ PassCompletes) =>
        /\ fout.exc = ""
        /\ StructuredMatches(Len(fresumes)) = << >> =>
              /\ fout.val = simple_keyword_filter(fquery, fresumes)
              /\ SomeResumeHasToken => fout.val # << >>
        /\ StructuredMatches(Len(fresumes)) # << >> =>
              fout.val = StructuredMatches(Len(fresumes))

\* C26 witness: the LLM answered with criteria no resume meets, and the call
\* returned one of the two resumes: the one that holds a word of the query.
C26_Witness ==
    /\ FilterRan
    /\ fgemini.exc = ""
    /\ fgemini.val.valid
    /\ PassCompletes
    /\ StructuredMatches(Len(fresumes)) = << >>
    /\ Len(fresumes) = 2
    /\ Len(fout.val) = 1
    /\ SomeResumeHasToken

\* C27: when the structured LLM call raises (the retry wrapper gave up while
\* the query was being decomposed), filter_resumes_with_nlp returns the pure
\* keyword-filter result, simple_keyword_filter(query, records), whatever the
\* query and the records are.
C27_RaiseMeansKeywordFilter ==
    (FilterRan /\ fgemini.exc # "") =>
        /\ fout.exc = ""
        /\ fout.val = simple_keyword_filter(fquery, fresumes)

\* ------------------------------------------------ claims on the queue's workers

\* The task ids whose record says "processing".
ProcessingIds == { id \in Stems : results[id].status = "processing" }

\* The worker threads inside analyze_document / analyze_document_with_filters.
InAnalyze == { w \in Calls : wpc[w] = "run" }

\* C28: the extraction calls of one queue are strictly sequential: at most one
\* task has status processing, and no two invocations of analyze_document /
\* analyze_document_with_filters are in flight at the same time.
C28_SequentialExtraction ==
    /\ Cardinality(ProcessingIds) <= 1
    /\ Cardinality(InAnalyze) <= 1

\* ------------------------------------------------ claims on the polling loop

\* The add_task calls of the current batch: process_resumes is the only
\* caller, so call n is the call for files[n].
BatchCalls == (bstart + 1)..BatchEnd

\* The polling loop is left: batch_complete was computed True.
LoopExit == ppc = "eval" /\ ppc' \in {"enqueue", "done"}

\* C29: the polling loop of a batch is left only after every file submitted in
\* the batch has reached a terminal state (completed or failed) in the queue,
\* also when two files of the batch have the same task id.
C29_BatchPolling ==
    [][LoopExit => \A n \in BatchCalls : phase[n] = "terminal"]_vars

\* ------------------------------------------------ claims on the task records

\* The step is a statement inside "with self.lock" that writes the table: the
\* worker's change to "processing" or its terminal assignment.
WriteUnderLock == \E w \in Calls : wpc[w] \in {"mark", "run"} /\ wpc'[w] # wpc[w]

\* The step is a worker's.
WorkerMoves == wpc' # wpc

\* C30: every write to the results table is made while holding the lock
\* get_result acquires, and a record get_result returned is not changed
\* afterwards by the worker (the holder of the record of a queued task never
\* sees its status become "processing").
C30_ConsistentSnapshots ==
    [][ /\ results' # results => WriteUnderLock
        /\ WorkerMoves => gres' = gres ]_vars

\* ------------------------------------------------ claims on the summaries

\* The rendering of one work_history entry as described: "<position> at
\* <company> (<dates>)", an absent part left out, " at " only between a
\* position and a company, and the blank before "(" only after a part.
DescribedJob(job) ==
    LET p == IF "position" \in DOMAIN job THEN job.position.v ELSE << >>
        c == IF "company" \in DOMAIN job
             THEN (IF p # << >> THEN << " ", "a", "t", " " >> ELSE << >>)
                  \o job.company.v
             ELSE << >>
        d == IF "dates" \in DOMAIN job
             THEN (IF p \o c # << >> THEN << " " >> ELSE << >>)
                  \o << "(" >> \o job.dates.v \o << ")" >>
             ELSE << >>
    IN  p \o c \o d

\* The described renderings of the first n entries with "; " between them.
RECURSIVE DescribedWorkHistory(_, _)
DescribedWorkHistory(l, n) ==
    IF n = 0 THEN << >>
    ELSE IF n = 1 THEN DescribedJob(l[1].v)
    ELSE DescribedWorkHistory(l, n - 1) \o << ";", " " >> \o DescribedJob(l[n].v)

\* A work_history list whose entries are objects holding a subset of the
\* three parts, each a string.
PlainWorkHistory(h) ==
    /\ h.t = "list"
    /\ \A k \in 1..Len(h.v) :
          /\ h.v[k].t = "dict"
          /\ \E ks \in SUBSET DOMAIN JobFull : h.v[k].v = Only(ks, JobFull)

\* C31: every work_history entry, whatever subset of position, company and
\* dates it holds, is rendered as described (only company C gives "C", only
\* dates D gives "(D)" with no leading blank), the entries are joined with
\* "; ", and an empty or missing work_history gives the empty summary.
C31_WorkHistorySummary ==
    ( /\ Parsed
      /\ Decodes(presp)
      /\ SameAsBaseExcept(presp.obj, {"work_history"}) )
    => /\ "work_history" \notin DOMAIN presp.obj =>
             /\ pret.exc = ""
             /\ pret.val.work_history_summary = SVal(<< >>)
       /\ ( /\ "work_history" \in DOMAIN presp.obj
            /\ PlainWorkHistory(presp.obj.work_history) )
          => /\ pret.exc = ""
             /\ pret.val.work_history_summary =
                    SVal(DescribedWorkHistory(presp.obj.work_history.v,
                                              Len(presp.obj.work_history.v)))

\* "- r1", newline, "- r2", ... for the first n reasons: one bullet for each.
RECURSIVE Bullets(_, _)
Bullets(l, n) ==
    IF n = 0 THEN << >>
    ELSE (IF n = 1 THEN << >> ELSE Bullets(l, n - 1) \o << "\n" >>)
         \o << "-", " " >> \o l[n].v

\* C32: with a match_reasons array r1..rn, match_reasons_text is the elements,
\* each prefixed with "- ", joined by newlines: one bullet per reason, and no
\* bullet for an empty array; with match_reasons absent the text is empty.
C32_MatchReasonsText ==
    ( /\ Parsed
      /\ Decodes(presp)
      /\ SameAsBaseExcept(presp.obj, {"match_reasons"}) )
    => /\ "match_reasons" \notin DOMAIN presp.obj =>
             /\ pret.exc = ""
             /\ pret.val.match_reasons_text = SVal(<< >>)
       /\ ( /\ "match_reasons" \in DOMAIN presp.obj
            /\ presp.obj.match_reasons.t = "list"
            /\ \A i \in 1..Len(presp.obj.match_reasons.v) :
                  presp.obj.match_reasons.v[i].t = "str" )
          => /\ pret.exc = ""
             /\ pret.val.match_reasons_text =
                    SVal(Bullets(presp.obj.match_reasons.v,
                                 Len(presp.obj.match_reasons.v)))

\* ------------------------------------------------ claims on the degraded criteria

\* The string without its blanks.
Unspaced(s) == SelectSeq(s, LAMBDA c : c # " ")

\* The number of commas of the string.
Commas(s) == Cardinality({ i \in 1..Len(s) : s[i] = "," })

\* The list is the query split on commas with each piece trimmed: one string
\* for each piece, none with a comma or a blank at either end, and the pieces
\* put together with commas give the query, blanks aside.
CommaSplitOf(list, query) ==
    /\ list.t = "list"
    /\ Len(list.v) = Commas(query) + 1
    /\ \A i \in 1..Len(list.v) :
          /\ list.v[i].t = "str"
          /\ Commas(list.v[i].v) = 0
          /\ list.v[i].v # << >> =>
                list.v[i].v[1] # " " /\ list.v[i].v[Len(list.v[i].v)] # " "
    /\ Unspaced(JoinChars(<< "," >>, [i \in 1..Len(list.v) |-> list.v[i].v]))
          = Unspaced(query)

\* The LLM answered, and its answer has no "{" before a "}" or a span that is
\* no JSON.
Undecodable(gemini) ==
    /\ gemini.exc = ""
    /\ \/ ~(\E i, j \in 1..Len(gemini.val.text) :
               i < j /\ gemini.val.text[i] = "{" /\ gemini.val.text[j] = "}")
       \/ ~gemini.val.valid

\* C33: when the LLM's answer to the decomposition prompt has no {...} span
\* or the span is no valid JSON, process_nlp_query raises nothing and returns
\* criteria whose skills is the query split on commas (pieces trimmed), whose
\* keywords is the list holding the whole query, and whose experience_years,
\* education, job_titles and location constrain nothing.
C33_DegradedCriteria ==
    (fop = "process_nlp_query" /\ Filtered /\ Undecodable(fgemini)) =>
        /\ fout.exc = ""
        /\ CommaSplitOf(fout.val.skills, fquery)
        /\ fout.val.keywords = LVal(<< SVal(fquery) >>)
        /\ \A key \in {"experience_years", "education", "job_titles", "location"} :
              ~Given(fout.val, key)
        /\ \A resume \in Resumes :
              matches_filters(resume, [fout.val EXCEPT !.skills = NoneVal,
                                                       !.keywords = NoneVal])
                 = Ok(TRUE)

\* C33 witness: the answer held a span that is no JSON, and the call returned
\* the criteria with skills ["rust", "go"] for the query "rust, go".
C33_Witness ==
    /\ fop = "process_nlp_query"
    /\ Filtered
    /\ fgemini.exc = ""
    /\ HasSpan(fgemini.val.text)
    /\ ~fgemini.val.valid
    /\ fquery = << "r", "u", "s", "t", ",", " ", "g", "o" >>
    /\ fout.exc = ""
    /\ fout.val.skills = LVal(<< SVal(<< "r", "u", "s", "t" >>), SVal(<< "g", "o" >>) >>)

\* ------------------------------------------------ claims on the keyword filter

\* The words of the query: its longest runs of characters without a blank.
WordsOf(query) ==
    { SubSeq(query, w[1], w[2]) :
        w \in { p \in (1..Len(query)) \X (1..Len(query)) :
                    /\ p[1] <= p[2]
                    /\ \A k \in p[1]..p[2] : query[k] # " "
                    /\ p[1] = 1 \/ query[p[1] - 1] = " "
                    /\ p[2] = Len(query) \/ query[p[2] + 1] = " " } }

\* The token set: the lower-cased words longer than 2 characters, or all the
\* words when none is that long.
TokenSet(query) ==
    LET long == { w \in WordsOf(query) : Len(w) > 2 }
    IN  { Lower(w) : w \in IF long # {} THEN long ELSE WordsOf(query) }

\* The resume's case-folded stringified form holds one of the tokens.
HoldsToken(resume, tokens) == \E token \in tokens : In(token, ResumeText(resume))

\* Of the first n resumes, those to keep, in their order.
RECURSIVE KeptOf(_, _, _)
KeptOf(resumes, tokens, n) ==
    IF n = 0 THEN << >>
    ELSE KeptOf(resumes, tokens, n - 1)
         \o (IF HoldsToken(resumes[n], tokens) THEN << resumes[n] >> ELSE << >>)

\* C34: simple_keyword_filter takes as tokens the lower-cased words of the
\* query longer than 2 characters or, if there is none, all its words; it
\* keeps a record if and only if its case-folded stringified form holds a
\* token, in input order; with no token at all it returns every record.
C34_KeywordFilter ==
    (fop = "simple_keyword_filter" /\ Filtered) =>
        /\ fout.exc = ""
        /\ TokenSet(fquery) = {} => fout.val = fresumes
        /\ TokenSet(fquery) # {} =>
              fout.val = KeptOf(fresumes, TokenSet(fquery), Len(fresumes))

\* C34 witness: the query "go", which has no word longer than 2 characters,
\* kept the second of two resumes and not the first.
C34_Witness ==
    /\ fop = "simple_keyword_filter"
    /\ Filtered
    /\ fquery = << "g", "o" >>
    /\ Len(fresumes) = 2
    /\ fout.val = << fresumes[2] >>
    /\ fresumes[1] # fresumes[2]

\* ------------------------------------------------ claims on the ranking

\* The score a record counts with: its match_score, 0 when it has none.
CountedScore(x) == IF x = "error_record" THEN 0 ELSE ScoreOf(x)

\* The rearrangements of n positions.
Rearrangements(n) ==
    { p \in [1..n -> 1..n] : \A i, j \in 1..n : p[i] = p[j] => i = j }

\* ranked holds the records of aggregated, each once, by non-increasing
\* score, those of equal score in the order they have in aggregated.
IsRanking(aggregated, ranked) ==
    /\ Len(ranked) = Len(aggregated)
    /\ \E p \in Rearrangements(Len(aggregated)) :
          /\ \A i \in 1..Len(ranked) : ranked[i] = aggregated[p[i]]
          /\ \A i, j \in 1..Len(ranked) :
                i < j =>
                    \/ CountedScore(ranked[i]) > CountedScore(ranked[j])
                    \/ /\ CountedScore(ranked[i]) = CountedScore(ranked[j])
                       /\ p[i] < p[j]

\* C35: when process_resumes returns, the list of matches is a permutation
\* of the aggregated records ordered by match_score non-increasing (a record
\* without match_score counts as 0), with records of equal score kept in
\* their aggregation order.
C35_Ranking ==
    [][(ppc # "done" /\ ppc' = "done") => IsRanking(resume_data, matches')]_vars

\* C35 witness: three records were ranked; two of equal score precede the
\* record without a match_score.
C35_Witness ==
    /\ ppc = "done"
    /\ matches = << "record_tie", "record", "error_record" >>

\* ------------------------------------------------ claims on the worker's life

\* A thread has set the flag in start_processing and is about to start the
\* worker thread.
WorkerBeingStarted == \E c \in Callers : cpc[c] = "sp_start"

\* C36: the worker never dies while the 'processing' flag is set: whenever
\* processing is true a worker thread is alive (or is just being started),
\* and the results entry of a task exists when the worker that dequeued it
\* updates its status to 'processing'.
C36_WorkerOutlivesFlag ==
    /\ processing => (AliveWorkers # {} \/ WorkerBeingStarted)
    /\ \A w \in Calls :
          wpc[w] = "mark" => results[TaskId(wtask[w])] # NoRec

\* ------------------------------------------------ claims on the aggregation

\* The submitted files whose task the queue holds as completed.
CompletedFiles ==
    { i \in 1..Len(files) : results[Stem(files[i])].status = "completed" }

\* C37: batch aggregation is exactly-once per file: when process_resumes
\* returns, the tasks counted as complete plus those counted as error are as
\* many as the submitted files, and the aggregated list holds exactly one
\* record for each file whose task completed, also for paths that share a
\* file-name stem.
C37_ExactlyOnce ==
    ppc = "done" =>
        /\ reported.completed + reported.errors = Len(files)
        /\ Len(resume_data) = Cardinality(CompletedFiles)

\* ------------------------------------------------ claims on the selection

\* The strictly increasing choices of n positions among m.
Selections(n, m) ==
    { f \in [1..n -> 1..m] : \A i, j \in 1..n : i < j => f[i] < f[j] }

\* sub holds records of list, each position of list at most once, in the
\* order of list.
IsSubList(sub, list) ==
    /\ Len(sub) <= Len(list)
    /\ \E f \in Selections(Len(sub), Len(list)) :
          \A i \in 1..Len(sub) : sub[i] = list[f[i]]

\* C38: filter_resumes_with_nlp only selects: whatever the query, the
\* records and the answer of the model (criteria, malformed text or a raise),
\* it returns a sub-list of the input records in their order; with an empty
\* query or an empty record list it returns the input unchanged without a
\* call of _call_gemini_with_retry, the only place where the filter reaches
\* the model and the rate limiter.
C38_OnlySelects ==
    (fop = "filter_resumes_with_nlp" /\ Filtered) =>
        /\ fout.exc = ""
        /\ IsSubList(fout.val, fresumes)
        /\ (fquery = << >> \/ fresumes = << >>) =>
              (fout.val = fresumes /\ fcalls = 0)

\* C38 witness: the model was asked once and one of two different resumes
\* was selected.
C38_Witness ==
    /\ fop = "filter_resumes_with_nlp"
    /\ Filtered
    /\ fcalls = 1
    /\ Len(fresumes) = 2
    /\ fresumes[1] # fresumes[2]
    /\ fout.val = << fresumes[2] >>

\* ------------------------------------------------ claims on the backoff sleeps

\* The invocations of the current wrapper call that raised.
FailedAttempts == Cardinality({ i \in 1..Len(hist) : hist[i] = "raise" })

\* C39: in the retry wrapper every failed attempt is followed by exactly one
\* failure() call and exactly one sleep of the delay that call returned, the
\* last attempt included: a call that exhausts max_retries attempts has slept
\* max_retries times when it raises, besides its max_retries waits in
\* RateLimiter.wait().
C39_BackoffSleeps ==
    /\ [](apc # "idle" =>
            /\ rpc = "failing" =>
                  /\ Len(sleeps) = FailedAttempts - 1
                  /\ Failures \in { FailedAttempts - 1, FailedAttempts }
            /\ rpc # "failing" =>
                  /\ Len(sleeps) = FailedAttempts
                  /\ Failures = FailedAttempts
            /\ rret.exc = "Exception" =>
                  /\ Len(sleeps) = max_retries
                  /\ Failures = max_retries
                  /\ Waits = max_retries)
    /\ [][sleeps' # sleeps /\ sleeps' # << >> =>
            /\ sleeps' = Append(sleeps, current_delay)
            /\ now' = now + current_delay
            /\ lastop = "failure"
            /\ Failures = FailedAttempts
            /\ hist[Len(hist)] = "raise"]_vars

\* C39 witness: the second analyze call has slept after each of its three
\* failed attempts, the last sleep being the longest, and the wrapper has
\* raised.
C39_Witness ==
    /\ acalls = 2
    /\ apc = "except"
    /\ rret.exc = "Exception"
    /\ Len(sleeps) = max_retries
    /\ sleeps[max_retries] > sleeps[1]

====
